---- MODULE Spec2Model ----
(***************************************************************************)
(* Model of the Sakshya evidence session engine: the App session state,    *)
(* the ChatInterface submission pipeline (handleSubmit), the AnalysisView  *)
(* follow-up pipeline and the Firestore-backed chat history.               *)
(*                                                                         *)
(* React state is modelled as follows.  A state setter called with an      *)
(* updater function is applied to the latest state.  A handler started by  *)
(* a user event reads the state of the latest render; the values an async  *)
(* handler read when it started stay in its closure (the fields of its     *)
(* record in subs / followups) for all of its later steps.                 *)
(* Every await of a handler is a point where other handlers may run.       *)
(***************************************************************************)
EXTENDS Integers, Sequences, FiniteSets, TLC

(***************************** bounds **************************************)
\* number of handleSubmit and handleFollowUpSubmit calls that get past the guards
MaxCalls == 2
\* number of handleSubmit and handleFollowUpSubmit calls in a returning user's visit
MaxReturningCalls == 1
\* number of handleNewChat / handleSelectChat calls
MaxResets == 1
\* largest value of Date.now(), in milliseconds after its first reading
MaxTime == 3
\* number of runs of AnalysisView's restore effect
MaxRestores == 2
\* number of handleToggleSave calls
MaxToggles == 2

(***************************** optional values *****************************)
\* null / undefined is the empty sequence, a present value v is <<v>>
None == <<>>
Some(v) == <<v>>
IsSome(o) == o /= <<>>
TheVal(o) == o[1]

(***************************** files and storage ***************************)
File(name, bytes) == [name |-> name, bytes |-> bytes]
Files == { File("a.mp4", <<0, 1>>), File("b.mp4", <<1>>) }

\* the incremental digest: sha256.init(), then update() per chunk, then digest()
RECURSIVE DigestFrom(_, _)
DigestFrom(acc, bytes) ==
    IF bytes = <<>> THEN acc
    ELSE DigestFrom(acc * 3 + Head(bytes) + 1, Tail(bytes))

generateHash(file) == DigestFrom(0, file.bytes)

\* `evidence/${currentHash}.mp4` in the default bucket
StorageKey(hash) == [dir |-> "evidence", hash |-> hash, ext |-> "mp4"]
GcsUri(hash) == [scheme |-> "gs", key |-> StorageKey(hash)]
DownloadUrl(hash) == [scheme |-> "https", key |-> StorageKey(hash)]

(***************************** JavaScript values ***************************)
\* A value of the inference response: undefined, a number (NaN apart), or a
\* string given by its ':'-separated parts.
JSUndef == [t |-> "undef", n |-> 0, parts |-> <<>>]
JSNum(n) == [t |-> "num", n |-> n, parts |-> <<>>]
JSNaN == [t |-> "nan", n |-> 0, parts |-> <<>>]
JSStr(parts) == [t |-> "str", n |-> 0, parts |-> parts]
\* one part of a string: decimal digits, nothing, or other text
Digits(n) == [k |-> "digits", v |-> n]
EmptyPart == [k |-> "empty", v |-> 0]
TextPart == [k |-> "text", v |-> 0]

\* truthiness, as used by || and !
Truthy(x) ==
    CASE x.t = "undef" -> FALSE
      [] x.t = "nan" -> FALSE
      [] x.t = "num" -> x.n /= 0
      [] x.t = "str" -> x.parts /= <<EmptyPart>>

JSOr(a, b) == IF Truthy(a) THEN a ELSE b

\* Number(part); numbers are held in hundredths (65.05 is 6505)
ToNumber(part) ==
    CASE part.k = "digits" -> JSNum(part.v * 100)
      [] part.k = "empty" -> JSNum(0)
      [] part.k = "text" -> JSNaN

JSAdd(a, b) == IF a.t = "nan" \/ b.t = "nan" THEN JSNaN ELSE JSNum(a.n + b.n)
JSMul(a, k) == IF a.t = "nan" THEN JSNaN ELSE JSNum(a.n * k)

\* the parser with a two-part string read as hours and minutes
parseTimestampToSeconds_HoursMinutes(timeStr) ==
    IF timeStr.t \in {"num", "nan"} THEN timeStr
    ELSE IF ~Truthy(timeStr) THEN JSNum(0)
    ELSE LET parts == [i \in 1..Len(timeStr.parts) |-> ToNumber(timeStr.parts[i])]
         IN  IF Len(parts) = 3
             THEN JSAdd(JSAdd(JSMul(parts[1], 3600), JSMul(parts[2], 60)), parts[3])
             ELSE IF Len(parts) = 2
             THEN JSAdd(JSMul(parts[1], 3600), JSMul(parts[2], 60))
             ELSE parts[1]

\* ChatInterface.parseTimestampToSeconds
parseTimestampToSeconds(timeStr) ==
    IF timeStr.t \in {"num", "nan"} THEN timeStr
    ELSE IF ~Truthy(timeStr) THEN JSNum(0)
    ELSE LET parts == [i \in 1..Len(timeStr.parts) |-> ToNumber(timeStr.parts[i])]
         IN  IF Len(parts) = 3
             THEN JSAdd(JSAdd(JSMul(parts[1], 3600), JSMul(parts[2], 60)), parts[3])
             ELSE IF Len(parts) = 2
             THEN JSAdd(JSMul(parts[1], 60), parts[2])
             ELSE parts[1]

\* parseFloat(x): the leading decimal number of the text, NaN when there is none
parseFloat(x) ==
    IF x.t = "str" /\ x.parts[1].k = "digits" THEN JSNum(x.parts[1].v * 100)
    ELSE IF x.t = "num" THEN x
    ELSE JSNaN

\* text fields: "" stands for an absent (or empty) field, both falsy
TextOr(a, b) == IF a /= "" THEN a ELSE b

RawFinding(start, timestamp, from, end, to, description, summary, confidence) ==
    [start |-> start, timestamp |-> timestamp, from |-> from, end |-> end, to |-> to,
     description |-> description, summary |-> summary, confidence |-> confidence]

\* ChatInterface.handleSubmit: data.timestamps.map(...)
FormatEvent(t) ==
    [fromTimestamp |-> parseTimestampToSeconds(JSOr(JSOr(t.start, t.timestamp), t.from)),
     toTimestamp |-> parseTimestampToSeconds(JSOr(t.end, t.to)),
     summary |-> TextOr(TextOr(t.description, t.summary), "Event Detected"),
     confidence |-> JSOr(t.confidence, JSNum(90))]

\* FormatEvents with an off-by-one in the map: the last finding is lost
FormatEvents_DropsLast(raw) ==
    [i \in 1..(IF Len(raw) = 0 THEN 0 ELSE Len(raw) - 1) |-> FormatEvent(raw[i])]

FormatEvents(raw) == [i \in 1..Len(raw) |-> FormatEvent(raw[i])]

\* AnalysisView.handleFollowUpSubmit: data.timestamps.map(...)
FollowUpEvent(t) ==
    [fromTimestamp |-> IF t.from.t \in {"num", "nan"} THEN t.from
                       ELSE JSOr(parseFloat(t.from), JSNum(0)),
     toTimestamp |-> IF t.to.t \in {"num", "nan"} THEN t.to
                     ELSE JSOr(parseFloat(t.to), JSNum(0)),
     summary |-> TextOr(t.summary, "Event Detected"),
     confidence |-> JSOr(t.confidence, JSNum(100))]

FollowUpEvents(raw) == [i \in 1..Len(raw) |-> FollowUpEvent(raw[i])]

\* findings in the shape the cloud function's response schema prescribes
SchemaFinding(h, m, s, len, summary) ==
    RawFinding(JSUndef, JSUndef, JSStr(<<Digits(h), Digits(m), Digits(s)>>),
               JSUndef, JSStr(<<Digits(h), Digits(m), Digits(s + len)>>),
               "", summary, JSNum(80))

\* response.data of getTimestampsFromGemini: timestamps is absent or a list
Response(timestamps, description) ==
    [timestamps |-> timestamps, description |-> description]

Responses ==
    { Response(None, ""),
      Response(Some(<<>>), ""),
      Response(Some(<<SchemaFinding(0, 1, 5, 2, "car"),
                      SchemaFinding(1, 0, 0, 4, "van")>>), "two vehicles") }

(***************************** the session record **************************)
\* the textarea's text when handleSubmit is called: empty, or a prompt
Prompts == {"", "p1"}

\* App.tsx: the initial value of currentSession
InitialSession ==
    [id |-> "new-session", videoUrl |-> None, videoName |-> "", hash |-> None,
     status |-> "idle", events |-> <<>>, gcsUri |-> None, chatHistory |-> <<>>,
     description |-> ""]

SentinelIds == {"new", "new-session"}

\* documents ids that Firestore assigns to chats
ChatIds == <<"chat1", "chat2", "chat3", "chat4">>

\* A turn of chatHistory.  isLoading is FALSE where the code leaves it absent;
\* the timestamp field, which no handler reads, is left out.
\* src names the handler call that created the turn; the code has no such
\* field, it is kept to state which placeholder belongs to which prompt.
Turn(id, role, text, isLoading, analysisData, src) ==
    [id |-> id, role |-> role, text |-> text,
     isLoading |-> isLoading, analysisData |-> analysisData, src |-> src]

AnalysisData(events, summary, confidence) ==
    [events |-> events, summary |-> summary, confidence |-> confidence]

FoundText(n, what) == "Found " \o ToString(n) \o what

VARIABLES
    currentSession,   \* App: currentSession
    selectedFile,     \* ChatInterface: selectedFile (None or Some(file))
    isProcessing,     \* ChatInterface: isProcessing
    errorMsg,         \* ChatInterface: errorMsg ("" for null)
    isHashing,        \* useFileHash: isHashing
    isAnalyzing,      \* AnalysisView: isAnalyzing
    subs,             \* the handleSubmit calls, each with its closure and position
    followups,        \* the handleFollowUpSubmit calls
    loads,            \* the handleSelectChat calls awaiting loadMessages
    now,              \* the last value Date.now() returned
    chats,            \* Firestore: the user's chat documents, in creation order
    messages,         \* Firestore: the message documents, in createdAt order
    objects,          \* Storage: the keys that hold an uploaded file
    epoch,            \* number of session replacements (new chat / select chat) so far
    savedEventIds,    \* AnalysisView: savedEventIds (display index -> bookmark docId)
    restoreDeps,      \* AnalysisView: the [session.id, session.events] the restore effect last ran for
    restores,         \* the restoreSavedState calls
    toggles,          \* the handleToggleSave calls
    saved,            \* Firestore: the bookmark documents of all chats, in fetch order
    signedIn,         \* auth.currentUser is set
    calc              \* a function evaluated on its own: its name, argument and result

vars == <<currentSession, selectedFile, isProcessing, errorMsg, isHashing, isAnalyzing,
          subs, followups, loads, now, chats, messages, objects, epoch,
          savedEventIds, restoreDeps, restores, toggles, saved, signedIn, calc>>

\* no function is being evaluated on its own
NoCalc == [fn |-> "", arg |-> <<>>, result |-> None]

chatState == <<selectedFile, isProcessing, errorMsg, isHashing>>
storeState == <<chats, messages, objects>>
savedState == <<savedEventIds, restoreDeps, restores, toggles, saved, signedIn>>

\* the state after App and ChatInterface are constructed
AppInit ==
    /\ currentSession = InitialSession
    /\ selectedFile = None
    /\ isProcessing = FALSE
    /\ errorMsg = ""
    /\ isHashing = FALSE
    /\ isAnalyzing = FALSE
    /\ subs = <<>>
    /\ followups = <<>>
    /\ loads = <<>>
    /\ now = 0
    /\ chats = <<>>
    /\ messages = <<>>
    /\ objects = {}
    /\ epoch = 0
    /\ savedEventIds = <<>>
    /\ restoreDeps = None
    /\ restores = <<>>
    /\ toggles = <<>>
    /\ saved = <<>>
    /\ signedIn = TRUE

Init == AppInit /\ calc = NoCalc

\* ChatInterface is rendered while status is 'idle', AnalysisView otherwise
ChatMounted == currentSession.status = "idle"

Calls == Len(subs) + Len(followups)

\* Date.now() read dt milliseconds after its last reading; the first reading is
\* the origin of the clock
ClockRead(dt) ==
    /\ Calls = 0 => dt = 0
    /\ now + dt + 1 <= MaxTime
    /\ now' = now + dt

(***************************** ChatInterface *******************************)
\* handleFileSelect; the file input is rendered while (!hasActiveVideo || selectedFile)
handleFileSelect(f) ==
    /\ ChatMounted
    /\ ~IsSome(currentSession.gcsUri) \/ IsSome(selectedFile)
    /\ selectedFile' = Some(f)
    /\ errorMsg' = ""
    /\ UNCHANGED <<currentSession, isProcessing, isHashing, isAnalyzing, subs, followups,
                   loads, now, chats, messages, objects, epoch>>
    /\ UNCHANGED <<savedState, calc>>

\* the disabled attribute of the submit button
SubmitDisabled(prompt) ==
    \/ prompt = ""
    \/ isProcessing
    \/ (isHashing /\ IsSome(selectedFile))
    \/ (~IsSome(currentSession.gcsUri) /\ ~IsSome(selectedFile))

\* NewSub that takes the upload branch whenever a file is selected
NewSub_UploadsSelected(prompt, t, startsUpload) ==
    [pc |-> IF IsSome(selectedFile) THEN "hashing" ELSE "inferring",
     prompt |-> prompt,
     file |-> selectedFile,
     currentGcsUri |-> currentSession.gcsUri,
     currentDownloadUrl |-> currentSession.videoUrl,
     currentVideoName |-> currentSession.videoName,
     currentHash |-> currentSession.hash,
     userMsgId |-> t,
     aiMsgId |-> t + 1,
     sessionId |-> currentSession.id,
     chatId |-> "",
     events |-> <<>>,
     mounted |-> TRUE,
     hashed |-> IsSome(selectedFile),
     uploaded |-> FALSE,
     epoch |-> epoch]

\* The closure of one handleSubmit call and its position (pc).  hashed and
\* uploaded record that the call has called generateHash / uploadBytes, epoch
\* the session it was made in; the code has no such fields.
NewSub(prompt, t, startsUpload) ==
    [pc |-> IF startsUpload THEN "hashing" ELSE "inferring",
     prompt |-> prompt,
     file |-> selectedFile,
     currentGcsUri |-> currentSession.gcsUri,
     currentDownloadUrl |-> currentSession.videoUrl,
     currentVideoName |-> currentSession.videoName,
     currentHash |-> currentSession.hash,
     userMsgId |-> t,
     aiMsgId |-> t + 1,
     sessionId |-> currentSession.id,
     chatId |-> "",
     events |-> <<>>,
     mounted |-> TRUE,
     hashed |-> startsUpload,
     uploaded |-> FALSE,
     epoch |-> epoch]

\* A handleSubmit call that has returned: its closure is garbage.  The record
\* keeps the ids it gave its turns and the history fields below.
Returned(sub) ==
    [pc |-> "done", prompt |-> "", file |-> None, currentGcsUri |-> None,
     currentDownloadUrl |-> None, currentVideoName |-> "", currentHash |-> None,
     userMsgId |-> sub.userMsgId, aiMsgId |-> sub.aiMsgId, sessionId |-> "",
     chatId |-> "", events |-> <<>>, mounted |-> FALSE, hashed |-> sub.hashed,
     uploaded |-> sub.uploaded, epoch |-> sub.epoch]

\* const newHistory = [ ...(session.chatHistory || []), { user }, { ai, isLoading } ]
NewHistory(history, prompt, t, src) ==
    history \o << Turn(t, "user", prompt, FALSE, None, src),
                  Turn(t + 1, "ai", "", TRUE, None, src) >>

\* handleSubmit that validates the evidence after it has added the turns
handleSubmit_ChecksLate(prompt, byButton, dt) ==
    /\ ChatMounted
    /\ byButton => ~SubmitDisabled(prompt)
    /\ IF prompt = ""
       THEN UNCHANGED <<currentSession, selectedFile, isProcessing, errorMsg, isHashing,
                        subs, now>>
       ELSE IF ~IsSome(selectedFile) /\ ~IsSome(currentSession.gcsUri)
       THEN /\ errorMsg' = "Please upload a video."
            /\ currentSession' = [currentSession EXCEPT !.chatHistory =
                   NewHistory(currentSession.chatHistory, prompt, now, <<"sub", 0>>)]
            /\ UNCHANGED <<selectedFile, isProcessing, isHashing, subs, now>>
       ELSE /\ Calls < MaxCalls
            /\ ClockRead(dt)
            /\ LET i == Len(subs) + 1
                   t == now + dt
                   startsUpload == IsSome(selectedFile) /\ ~IsSome(currentSession.gcsUri)
                   newHistory == NewHistory(currentSession.chatHistory, prompt, t,
                                            <<"sub", i>>)
               IN  /\ currentSession' = [currentSession EXCEPT !.chatHistory = newHistory]
                   /\ subs' = Append(subs, NewSub(prompt, t, startsUpload))
                   /\ isHashing' = IF startsUpload THEN TRUE ELSE isHashing
            /\ isProcessing' = TRUE
            /\ errorMsg' = ""
            /\ UNCHANGED selectedFile
    /\ UNCHANGED <<isAnalyzing, followups, loads, chats, messages, objects, epoch>>
    /\ UNCHANGED <<savedState, calc>>

\* handleSubmit up to its first await.  It is called by the form's submit
\* (the button, when not disabled) and by Enter in the textarea.
handleSubmit(prompt, byButton, dt) ==
    /\ ChatMounted
    /\ byButton => ~SubmitDisabled(prompt)
    /\ IF prompt = ""
       THEN UNCHANGED <<currentSession, selectedFile, isProcessing, errorMsg, isHashing,
                        subs, now>>
       ELSE IF ~IsSome(selectedFile) /\ ~IsSome(currentSession.gcsUri)
       THEN /\ errorMsg' = "Please upload a video."
            /\ UNCHANGED <<currentSession, selectedFile, isProcessing, isHashing,
                           subs, now>>
       ELSE /\ Calls < MaxCalls
            /\ ClockRead(dt)
            /\ LET i == Len(subs) + 1
                   t == now + dt
                   startsUpload == IsSome(selectedFile) /\ ~IsSome(currentSession.gcsUri)
                   newHistory == NewHistory(currentSession.chatHistory, prompt, t,
                                            <<"sub", i>>)
               IN  /\ currentSession' = [currentSession EXCEPT !.chatHistory = newHistory]
                   /\ subs' = Append(subs, NewSub(prompt, t, startsUpload))
                   /\ isHashing' = IF startsUpload THEN TRUE ELSE isHashing
            /\ isProcessing' = TRUE
            /\ errorMsg' = ""
            /\ UNCHANGED selectedFile
    /\ UNCHANGED <<isAnalyzing, followups, loads, chats, messages, objects, epoch>>
    /\ UNCHANGED <<savedState, calc>>

\* setSession(prev => ({ ...prev, chatHistory: prev.chatHistory?.map(msg =>
\*   msg.id === aiMsgId ? { ...msg, isLoading: false, text, analysisData } : msg) }))
ResolveOk(history, aiMsgId, data, formattedEvents) ==
    [k \in 1..Len(history) |->
        IF history[k].id = aiMsgId
        THEN [history[k] EXCEPT
                !.isLoading = FALSE,
                !.text = TextOr(data.description,
                                FoundText(Len(formattedEvents), " relevant events.")),
                !.analysisData = Some(AnalysisData(formattedEvents, data.description, 90))]
        ELSE history[k]]

\* the catch block's map without isLoading: false
ResolveFailed_KeepsLoading(history, aiMsgId) ==
    [k \in 1..Len(history) |->
        IF history[k].id = aiMsgId
        THEN [history[k] EXCEPT !.text = "Failed to analyze video."]
        ELSE history[k]]

\* the same map in the catch block
ResolveFailed(history, aiMsgId) ==
    [k \in 1..Len(history) |->
        IF history[k].id = aiMsgId
        THEN [history[k] EXCEPT !.isLoading = FALSE, !.text = "Failed to analyze video."]
        ELSE history[k]]

\* CatchSubmit that rolls the session back to a session without a video
CatchSubmit_DropsUpload(i) ==
    /\ currentSession' = [currentSession EXCEPT
           !.hash = None,
           !.gcsUri = None,
           !.chatHistory = ResolveFailed(currentSession.chatHistory, subs[i].aiMsgId)]
    /\ subs' = [subs EXCEPT ![i] = Returned(subs[i])]
    /\ errorMsg' = IF subs[i].mounted THEN "Connection failed." ELSE errorMsg
    /\ isProcessing' = IF subs[i].mounted THEN FALSE ELSE isProcessing

\* CatchSubmit that also records the failure in the session's status
CatchSubmit_SetsError(i) ==
    /\ currentSession' = [currentSession EXCEPT
           !.status = "error",
           !.chatHistory = ResolveFailed(currentSession.chatHistory, subs[i].aiMsgId)]
    /\ subs' = [subs EXCEPT ![i] = Returned(subs[i])]
    /\ errorMsg' = IF subs[i].mounted THEN "Connection failed." ELSE errorMsg
    /\ isProcessing' = IF subs[i].mounted THEN FALSE ELSE isProcessing

\* catch { ... } finally { setIsProcessing(false) } of handleSubmit; the setters
\* of an unmounted ChatInterface have no effect
CatchSubmit(i) ==
    /\ currentSession' = [currentSession EXCEPT
           !.chatHistory = ResolveFailed(currentSession.chatHistory, subs[i].aiMsgId)]
    /\ subs' = [subs EXCEPT ![i] = Returned(subs[i])]
    /\ errorMsg' = IF subs[i].mounted THEN "Connection failed." ELSE errorMsg
    /\ isProcessing' = IF subs[i].mounted THEN FALSE ELSE isProcessing

\* generateHash resolves: currentHash, currentVideoName are set, uploadBytes is called
HashDone(i) ==
    /\ subs[i].pc = "hashing"
    /\ subs' = [subs EXCEPT ![i].pc = "uploading",
                            ![i].uploaded = TRUE,
                            ![i].currentHash = Some(generateHash(TheVal(subs[i].file))),
                            ![i].currentVideoName = TheVal(subs[i].file).name]
    /\ isHashing' = IF subs[i].mounted THEN FALSE ELSE isHashing
    /\ UNCHANGED <<currentSession, selectedFile, isProcessing, errorMsg, isAnalyzing,
                   followups, loads, now, chats, messages, objects, epoch>>
    /\ UNCHANGED <<savedState, calc>>

\* generateHash rejects (a chunk read failed)
HashFail(i) ==
    /\ subs[i].pc = "hashing"
    /\ isHashing' = IF subs[i].mounted THEN FALSE ELSE isHashing
    /\ CatchSubmit(i)
    /\ UNCHANGED <<selectedFile, isAnalyzing, followups, loads, now, chats, messages,
                   objects, epoch>>
    /\ UNCHANGED <<savedState, calc>>

\* uploadBytes and then getDownloadURL resolve (nothing but the stored object
\* changes between the two): the session takes the upload's fields, the file
\* selection is cleared, getTimestampsFromGemini is called
UploadDone(i) ==
    /\ subs[i].pc = "uploading"
    /\ LET h == TheVal(subs[i].currentHash)
       IN  /\ objects' = objects \cup {StorageKey(h)}
           /\ subs' = [subs EXCEPT ![i].pc = "inferring",
                                   ![i].currentDownloadUrl = Some(DownloadUrl(h)),
                                   ![i].currentGcsUri = Some(GcsUri(h))]
           /\ currentSession' = [currentSession EXCEPT
                                   !.videoUrl = Some(DownloadUrl(h)),
                                   !.videoName = subs[i].currentVideoName,
                                   !.hash = Some(h),
                                   !.gcsUri = Some(GcsUri(h))]
    /\ selectedFile' = IF subs[i].mounted THEN None ELSE selectedFile
    /\ UNCHANGED <<isProcessing, errorMsg, isHashing, isAnalyzing, followups, loads,
                   now, chats, messages, epoch>>
    /\ UNCHANGED <<savedState, calc>>

\* uploadBytes rejects, or it stores the object and getDownloadURL rejects
UploadFail(i, stored) ==
    /\ subs[i].pc = "uploading"
    /\ objects' = IF stored THEN objects \cup {StorageKey(TheVal(subs[i].currentHash))}
                  ELSE objects
    /\ CatchSubmit(i)
    /\ UNCHANGED <<selectedFile, isHashing, isAnalyzing, followups, loads, now, chats,
                   messages, epoch>>
    /\ UNCHANGED <<savedState, calc>>

\* getTimestampsFromGemini resolves with response.data = data
InferDone(i, data) ==
    /\ subs[i].pc = "inferring"
    /\ IF IsSome(data.timestamps)
       THEN LET formattedEvents == FormatEvents(TheVal(data.timestamps))
                saves == IsSome(subs[i].currentDownloadUrl)
            IN  /\ currentSession' = [currentSession EXCEPT
                       !.chatHistory = ResolveOk(currentSession.chatHistory,
                                                 subs[i].aiMsgId, data, formattedEvents)]
                \* onSaveSession(...), not awaited: it runs up to its first await
                /\ subs' = [subs EXCEPT ![i] =
                       IF ~saves THEN Returned(subs[i])
                       ELSE [subs[i] EXCEPT
                               !.events = formattedEvents,
                               !.chatId = subs[i].sessionId,
                               !.pc = IF subs[i].sessionId \in SentinelIds
                                      THEN "creating" ELSE "saveUser"]]
       ELSE /\ subs' = [subs EXCEPT ![i] = Returned(subs[i])]
            /\ UNCHANGED currentSession
    /\ isProcessing' = IF subs[i].mounted THEN FALSE ELSE isProcessing
    /\ UNCHANGED <<selectedFile, errorMsg, isHashing, isAnalyzing, followups, loads,
                   now, chats, messages, objects, epoch>>
    /\ UNCHANGED <<savedState, calc>>

\* getTimestampsFromGemini rejects
InferFail(i) ==
    /\ subs[i].pc = "inferring"
    /\ CatchSubmit(i)
    /\ UNCHANGED <<selectedFile, isHashing, isAnalyzing, followups, loads, now, chats,
                   messages, objects, epoch>>
    /\ UNCHANGED <<savedState, calc>>

(***************************** useChatHistory ******************************)
\* a message document; Firestore's ids are modelled as negative numbers, which
\* no Date.now() id equals
MessageDoc(chatId, role, text, events, src) ==
    [id |-> 0 - (Len(messages) + 1), chatId |-> chatId, role |-> role,
     text |-> text, events |-> events, src |-> src]

\* saveMessage, one addDoc at a time; its last await, the setDoc of the chat's
\* title (a field no handler reads), is not modelled as a write
AddUserDoc(chatId, prompt, src) ==
    messages' = Append(messages, MessageDoc(chatId, "user", prompt, <<>>, src))

AddAssistantDoc(chatId, aiEvents, src) ==
    messages' = Append(messages, MessageDoc(chatId, "assistant", "", aiEvents, src))

\* createSession: addDoc to the chats collection
ChatDoc(id, videoName, videoHash, previewUrl) ==
    [id |-> id, videoName |-> videoName, videoHash |-> videoHash,
     previewUrl |-> previewUrl]

\* loadMessages: the chat's messages ordered by createdAt
loadMessages(chatId) ==
    LET docs == SelectSeq(messages, LAMBDA m : m.chatId = chatId)
    IN  [k \in 1..Len(docs) |->
            [id |-> docs[k].id,
             role |-> IF docs[k].role = "assistant" THEN "ai" ELSE docs[k].role,
             text |-> IF docs[k].role = "user" THEN docs[k].text ELSE "",
             events |-> IF docs[k].role = "assistant" THEN Some(docs[k].events) ELSE None,
             src |-> docs[k].src]]

(***************************** App: onSaveSession **************************)
\* createSession resolves: the chat exists, the session takes its id,
\* saveMessage is called
CreateDone(i) ==
    /\ subs[i].pc = "creating"
    /\ Len(chats) < Len(ChatIds)
    /\ LET chatId == ChatIds[Len(chats) + 1]
       IN  /\ chats' = Append(chats, ChatDoc(chatId, subs[i].currentVideoName,
                                              subs[i].currentHash,
                                              subs[i].currentDownloadUrl))
           /\ subs' = [subs EXCEPT ![i].pc = "saveUser", ![i].chatId = chatId]
           /\ currentSession' = [currentSession EXCEPT !.id = chatId]
    /\ UNCHANGED <<chatState, isAnalyzing, followups, loads, now, messages, objects,
                   epoch>>
    /\ UNCHANGED <<savedState, calc>>

\* saveMessage's writes of the user and the assistant document
SaveStep(i) ==
    /\ subs[i].pc \in {"saveUser", "saveAi"}
    /\ IF subs[i].pc = "saveUser"
       THEN /\ AddUserDoc(subs[i].chatId, subs[i].prompt, <<"sub", i>>)
            /\ subs' = [subs EXCEPT ![i].pc = "saveAi"]
       ELSE /\ AddAssistantDoc(subs[i].chatId, subs[i].events, <<"sub", i>>)
            /\ subs' = [subs EXCEPT ![i] = Returned(subs[i])]
    /\ UNCHANGED <<currentSession, chatState, isAnalyzing, followups, loads, now,
                   chats, objects, epoch>>
    /\ UNCHANGED <<savedState, calc>>

\* a write of onSaveSession rejects; nothing awaits or catches it
SaveFail(i) ==
    /\ subs[i].pc \in {"creating", "saveUser", "saveAi"}
    /\ subs' = [subs EXCEPT ![i] = Returned(subs[i])]
    /\ UNCHANGED <<currentSession, chatState, isAnalyzing, followups, loads, now,
                   chats, messages, objects, epoch>>
    /\ UNCHANGED <<savedState, calc>>

(***************************** App: session replacement ********************)
\* the handlers of a component that was unmounted keep running, their
\* setters of the component's own state have no effect
Detached(procs) == [k \in 1..Len(procs) |-> [procs[k] EXCEPT !.mounted = FALSE]]

\* AnalysisView is not rendered after the step: its state is dropped (a later
\* mount starts from useState's initial values and runs the restore effect),
\* and the setters of its handlers still running have no effect
LeaveAnalysisView ==
    /\ savedEventIds' = <<>>
    /\ restoreDeps' = None
    /\ restores' = Detached(restores)
    /\ toggles' = Detached(toggles)
    /\ UNCHANGED <<saved, signedIn, calc>>

\* App.tsx handleNewChat.  When AnalysisView was shown it is replaced by a
\* newly mounted ChatInterface; a ChatInterface that was shown stays mounted.
newChat ==
    /\ epoch' = epoch + 1
    /\ currentSession' =
           [id |-> "new", videoUrl |-> None, videoName |-> "", hash |-> None,
            status |-> "idle", events |-> <<>>, chatHistory |-> <<>>, gcsUri |-> None,
            description |-> ""]
    /\ followups' = IF ChatMounted THEN followups ELSE Detached(followups)
    /\ isAnalyzing' = FALSE
    /\ UNCHANGED <<chatState, subs, loads, now, chats, messages, objects>>
    /\ LeaveAnalysisView

\* handleNewChat that spreads the previous session and clears only the turns
handleNewChat_KeepsVideo ==
    /\ epoch < MaxResets
    /\ epoch' = epoch + 1
    /\ currentSession' =
           [currentSession EXCEPT !.id = "new", !.status = "idle", !.events = <<>>,
                                  !.chatHistory = <<>>, !.description = ""]
    /\ followups' = IF ChatMounted THEN followups ELSE Detached(followups)
    /\ isAnalyzing' = FALSE
    /\ UNCHANGED <<chatState, subs, loads, now, chats, messages, objects>>
    /\ LeaveAnalysisView

\* handleNewChat, followed for MaxResets changes of session
handleNewChat == epoch < MaxResets /\ newChat

\* digest('hex'): the digits of the fingerprint, and the number they spell
HexDigits == <<"0", "1", "2", "3", "4", "5", "6", "7", "8", "9",
               "a", "b", "c", "d", "e", "f">>

RECURSIVE Hex(_)
Hex(n) == IF n < 16 THEN <<HexDigits[n + 1]>>
          ELSE Append(Hex(n \div 16), HexDigits[(n % 16) + 1])

RECURSIVE FromHex(_)
FromHex(digits) ==
    IF digits = <<>> THEN 0
    ELSE FromHex(SubSeq(digits, 1, Len(digits) - 1)) * 16
         + (CHOOSE d \in 0..15 : HexDigits[d + 1] = digits[Len(digits)])

\* the text of a download URL as getDownloadURL returns it: the object's path
\* with its '/' percent-encoded, then the query
UrlText(url) ==
    <<"https://firebasestorage.googleapis.com/v0/b/bucket/o/", url.key.dir, "%2F">>
    \o Hex(url.key.hash) \o <<".", url.key.ext, "?alt=media&token=">>

\* url.match(/evidence%2F(.*?)\.mp4/): the leftmost "evidence%2F" that some
\* ".mp4" follows, and the shortest text between them
RegexMatch(text) ==
    LET starts == { i \in 1..Len(text) - 1 :
                       /\ text[i] = "evidence" /\ text[i + 1] = "%2F"
                       /\ \E j \in i + 2..Len(text) - 1 :
                             text[j] = "." /\ text[j + 1] = "mp4" }
    IN  IF starts = {} THEN None
        ELSE LET i == CHOOSE x \in starts : \A y \in starts : x <= y
                 ends == { j \in i + 2..Len(text) - 1 :
                              text[j] = "." /\ text[j + 1] = "mp4" }
                 j == CHOOSE x \in ends : \A y \in ends : x <= y
             IN  Some(SubSeq(text, i + 2, j - 1))

\* extractHashFromUrl that reads the object's name whatever its folder
extractHashFromUrl_AnyFolder(url) ==
    IF ~IsSome(url) THEN None
    ELSE Some(TheVal(url).key.hash)

\* an empty capture is the empty string, which every reader of the result
\* treats as no hash
extractHashFromUrl(url) ==
    IF ~IsSome(url) THEN None
    ELSE LET match == RegexMatch(UrlText(TheVal(url)))
         IN  IF IsSome(match) /\ TheVal(match) /= <<>>
             THEN Some(FromHex(TheVal(match)))
             ELSE None

\* handleSelectChat up to its await of loadMessages
selectChat(c) ==
    /\ c \in 1..Len(chats)
    /\ epoch' = epoch + 1
    /\ LET chat == chats[c]
           finalHash == IF IsSome(chat.videoHash) THEN chat.videoHash
                        ELSE extractHashFromUrl(chat.previewUrl)
           reconstructedGcsUri == IF IsSome(finalHash) THEN Some(GcsUri(TheVal(finalHash)))
                                  ELSE None
       IN  /\ currentSession' =
                  [id |-> chat.id, videoUrl |-> chat.previewUrl,
                   videoName |-> IF chat.videoName /= "" THEN chat.videoName
                                 ELSE "Evidence Video",
                   hash |-> finalHash, status |-> "idle", events |-> <<>>,
                   chatHistory |-> <<>>, gcsUri |-> reconstructedGcsUri,
                   description |-> ""]
           /\ loads' = Append(loads, [chatId |-> chat.id, pc |-> "loading"])
    /\ followups' = IF ChatMounted THEN followups ELSE Detached(followups)
    /\ isAnalyzing' = FALSE
    /\ UNCHANGED <<chatState, subs, now, chats, messages, objects>>
    /\ LeaveAnalysisView

\* handleSelectChat that takes the session's hash from the chat document alone
handleSelectChat_HashFromDocOnly(c) ==
    /\ epoch < MaxResets
    /\ c \in 1..Len(chats)
    /\ epoch' = epoch + 1
    /\ LET chat == chats[c]
           finalHash == IF IsSome(chat.videoHash) THEN chat.videoHash
                        ELSE extractHashFromUrl(chat.previewUrl)
           reconstructedGcsUri == IF IsSome(finalHash) THEN Some(GcsUri(TheVal(finalHash)))
                                  ELSE None
       IN  /\ currentSession' =
                  [id |-> chat.id, videoUrl |-> chat.previewUrl,
                   videoName |-> IF chat.videoName /= "" THEN chat.videoName
                                 ELSE "Evidence Video",
                   hash |-> chat.videoHash, status |-> "idle", events |-> <<>>,
                   chatHistory |-> <<>>, gcsUri |-> reconstructedGcsUri,
                   description |-> ""]
           /\ loads' = Append(loads, [chatId |-> chat.id, pc |-> "loading"])
    /\ followups' = IF ChatMounted THEN followups ELSE Detached(followups)
    /\ isAnalyzing' = FALSE
    /\ UNCHANGED <<chatState, subs, now, chats, messages, objects>>
    /\ LeaveAnalysisView

\* handleSelectChat, followed for MaxResets changes of session
handleSelectChat(c) == epoch < MaxResets /\ selectChat(c)

\* handleSelectChat: rawMessages.map(...)
FormatMessage(msg) ==
    LET eventCount == IF IsSome(msg.events) THEN Len(TheVal(msg.events)) ELSE 0
        content == IF msg.text = "" /\ msg.role = "ai"
                   THEN FoundText(eventCount, " events.")
                   ELSE msg.text
    IN  Turn(msg.id, msg.role, content, FALSE,
             IF IsSome(msg.events)
             THEN Some(AnalysisData(TheVal(msg.events), "Analysis Results", 100))
             ELSE None,
             msg.src)

\* LoadDone that applies the turns to whatever session is current
LoadDone_Unguarded(k, ok) ==
    /\ loads[k].pc = "loading"
    /\ loads' = [loads EXCEPT ![k].pc = "done"]
    /\ LET rawMessages == IF ok THEN loadMessages(loads[k].chatId) ELSE <<>>
           formattedMessages == [n \in 1..Len(rawMessages) |-> FormatMessage(rawMessages[n])]
       IN  currentSession' = [currentSession EXCEPT !.chatHistory = formattedMessages]
    /\ UNCHANGED <<chatState, isAnalyzing, subs, followups, now, chats, messages,
                   objects, epoch>>
    /\ UNCHANGED <<savedState, calc>>

\* loadMessages resolves (with [] when the read failed): the turns are
\* applied if the session is still the selected chat
LoadDone(k, ok) ==
    /\ loads[k].pc = "loading"
    /\ loads' = [loads EXCEPT ![k].pc = "done"]
    /\ LET rawMessages == IF ok THEN loadMessages(loads[k].chatId) ELSE <<>>
           formattedMessages == [n \in 1..Len(rawMessages) |-> FormatMessage(rawMessages[n])]
       IN  currentSession' =
               IF currentSession.id = loads[k].chatId
               THEN [currentSession EXCEPT !.chatHistory = formattedMessages]
               ELSE currentSession
    /\ UNCHANGED <<chatState, isAnalyzing, subs, followups, now, chats, messages,
                   objects, epoch>>
    /\ UNCHANGED <<savedState, calc>>

(***************************** view switching ******************************)
\* handleViewResults that adds the turn's events to those already shown
handleViewResults_Appends(k) ==
    /\ ChatMounted
    /\ k \in 1..Len(currentSession.chatHistory)
    /\ LET msg == currentSession.chatHistory[k]
       IN  /\ msg.role = "ai"
           /\ IsSome(msg.analysisData)
           /\ currentSession' = [currentSession EXCEPT
                                   !.status = "ready",
                                   !.events = currentSession.events
                                                \o TheVal(msg.analysisData).events,
                                   !.description = TheVal(msg.analysisData).summary]
    /\ subs' = Detached(subs)
    /\ selectedFile' = None
    /\ isProcessing' = FALSE
    /\ errorMsg' = ""
    /\ isHashing' = FALSE
    /\ isAnalyzing' = FALSE
    /\ UNCHANGED <<followups, loads, now, chats, messages, objects, epoch>>
    /\ UNCHANGED <<savedState, calc>>

\* ChatInterface.handleViewResults, the button of an ai turn with analysisData.
\* status leaves 'idle': ChatInterface is unmounted (its state is dropped, a
\* later mount starts from the initial values) and AnalysisView is mounted.
handleViewResults(k) ==
    /\ ChatMounted
    /\ k \in 1..Len(currentSession.chatHistory)
    /\ LET msg == currentSession.chatHistory[k]
       IN  /\ msg.role = "ai"
           /\ IsSome(msg.analysisData)
           /\ currentSession' = [currentSession EXCEPT
                                   !.status = "ready",
                                   !.events = TheVal(msg.analysisData).events,
                                   !.description = TheVal(msg.analysisData).summary]
    /\ subs' = Detached(subs)
    /\ selectedFile' = None
    /\ isProcessing' = FALSE
    /\ errorMsg' = ""
    /\ isHashing' = FALSE
    /\ isAnalyzing' = FALSE
    /\ UNCHANGED <<followups, loads, now, chats, messages, objects, epoch>>
    /\ UNCHANGED <<savedState, calc>>

\* App.tsx onBack: AnalysisView is unmounted, ChatInterface mounted
onBack ==
    /\ ~ChatMounted
    /\ currentSession' = [currentSession EXCEPT !.status = "idle"]
    /\ followups' = Detached(followups)
    /\ isAnalyzing' = FALSE
    /\ UNCHANGED <<chatState, subs, loads, now, chats, messages, objects, epoch>>
    /\ LeaveAnalysisView

(***************************** AnalysisView ********************************)
\* handleFollowUpSubmit up to its await of getTimestampsFromGemini
handleFollowUpSubmit(prompt) ==
    /\ ~ChatMounted
    /\ prompt /= ""
    /\ ~isAnalyzing
    /\ Calls < MaxCalls
    /\ isAnalyzing' = TRUE
    /\ followups' = Append(followups,
           [pc |-> "inferring", prompt |-> prompt, hash |-> currentSession.hash,
            sessionId |-> currentSession.id, events |-> <<>>, mounted |-> TRUE])
    /\ UNCHANGED <<currentSession, chatState, subs, loads, now, chats, messages,
                   objects, epoch>>
    /\ UNCHANGED <<savedState, calc>>

\* a handleFollowUpSubmit call that has returned
ReturnedFollowUp ==
    [pc |-> "done", prompt |-> "", hash |-> None, sessionId |-> "", events |-> <<>>,
     mounted |-> FALSE]

\* getTimestampsFromGemini resolves in handleFollowUpSubmit
FollowUpDone(j, data) ==
    /\ followups[j].pc = "inferring"
    /\ IF IsSome(data.timestamps)
       THEN LET newEvents == FollowUpEvents(TheVal(data.timestamps))
            IN  /\ currentSession' = [currentSession EXCEPT
                                        !.events = currentSession.events \o newEvents]
                \* await onSaveEvents(promptText, newEvents): saveMessage is called
                /\ followups' = [followups EXCEPT ![j].pc = "saveUser",
                                                  ![j].events = newEvents]
                /\ UNCHANGED isAnalyzing
       ELSE /\ followups' = [followups EXCEPT ![j] = ReturnedFollowUp]
            /\ isAnalyzing' = IF followups[j].mounted THEN FALSE ELSE isAnalyzing
            /\ UNCHANGED currentSession
    /\ UNCHANGED <<chatState, subs, loads, now, chats, messages, objects, epoch>>
    \* [...prev.events, ...newEvents] is a new array: the dependencies of
    \* AnalysisView's restore effect have changed
    /\ restoreDeps' = IF IsSome(data.timestamps) THEN None ELSE restoreDeps
    /\ UNCHANGED <<savedEventIds, restores, toggles, saved, signedIn, calc>>

\* getTimestampsFromGemini or a write of onSaveEvents rejects: catch, finally
FollowUpFail(j) ==
    /\ followups[j].pc \in {"inferring", "saveUser", "saveAi", "saveTitle"}
    /\ followups' = [followups EXCEPT ![j] = ReturnedFollowUp]
    /\ isAnalyzing' = IF followups[j].mounted THEN FALSE ELSE isAnalyzing
    /\ UNCHANGED <<currentSession, chatState, subs, loads, now, chats, messages,
                   objects, epoch>>
    /\ UNCHANGED <<savedState, calc>>

\* App.tsx onSaveEvents: saveMessage's two writes, then (after its last await)
\* the two turns are appended
FollowUpSaveStep(j, dt) ==
    /\ followups[j].pc \in {"saveUser", "saveAi", "saveTitle"}
    /\ CASE followups[j].pc = "saveUser" ->
              /\ dt = 0
              /\ AddUserDoc(followups[j].sessionId, followups[j].prompt, <<"followup", j>>)
              /\ followups' = [followups EXCEPT ![j].pc = "saveAi"]
              /\ UNCHANGED <<currentSession, isAnalyzing, now>>
         [] followups[j].pc = "saveAi" ->
              /\ dt = 0
              /\ AddAssistantDoc(followups[j].sessionId, followups[j].events,
                                 <<"followup", j>>)
              /\ followups' = [followups EXCEPT ![j].pc = "saveTitle"]
              /\ UNCHANGED <<currentSession, isAnalyzing, now>>
         [] followups[j].pc = "saveTitle" ->
              /\ ClockRead(dt)
              /\ currentSession' = [currentSession EXCEPT !.chatHistory =
                     currentSession.chatHistory \o
                     << Turn(now + dt, "user", followups[j].prompt, FALSE, None,
                             <<"followup", j>>),
                        Turn(now + dt + 1, "ai",
                             FoundText(Len(followups[j].events), " new events."), FALSE,
                             Some(AnalysisData(followups[j].events,
                                               "Follow-up Analysis", 100)),
                             <<"followup", j>>) >>]
              /\ followups' = [followups EXCEPT ![j] = ReturnedFollowUp]
              /\ isAnalyzing' = IF followups[j].mounted THEN FALSE ELSE isAnalyzing
              /\ UNCHANGED messages
    /\ UNCHANGED <<chatState, subs, loads, chats, objects, epoch>>
    /\ UNCHANGED <<savedState, calc>>

(***************************** AnalysisView: bookmarks *********************)
\* Display indexes are 1-based here (index + 1 of the code).  Document ids are
\* opaque; the id of the document created by the t-th handleToggleSave call is
\* t, the ids stored by earlier visits are negative.

\* a document of users/{uid}/chats/{chatId}/saved: the event's fields ({...eventData})
Bookmark(chatId, docId, event) ==
    [chatId |-> chatId, docId |-> docId, fromTimestamp |-> event.fromTimestamp,
     toTimestamp |-> event.toTimestamp, summary |-> event.summary,
     confidence |-> event.confidence]

\* the documents getDocs returns for chats/{chatId}/saved
SavedOf(chatId) == SelectSeq(saved, LAMBDA b : b.chatId = chatId)

Abs(x) == IF x < 0 THEN 0 - x ELSE x

\* Math.abs(a - b) < 0.1; a comparison with NaN is false
WithinTolerance(a, b) == a.t = "num" /\ b.t = "num" /\ Abs(a.n - b.n) < 10

\* the predicate of savedDocs.find in restoreSavedState
IsMatch(savedDoc, timelineEvent) ==
    /\ WithinTolerance(savedDoc.fromTimestamp, timelineEvent.fromTimestamp)
    /\ savedDoc.summary = timelineEvent.summary

\* savedDocs.find(...), looking from position n on: None for undefined
RECURSIVE find(_, _, _)
find(savedDocs, timelineEvent, n) ==
    IF n > Len(savedDocs) THEN None
    ELSE IF IsMatch(savedDocs[n], timelineEvent) THEN Some(savedDocs[n])
    ELSE find(savedDocs, timelineEvent, n + 1)

\* restoredMap built from the last match of each event instead of the first
restoredMap_LastMatch(events, savedDocs) ==
    LET matches(k) == {n \in 1..Len(savedDocs) : IsMatch(savedDocs[n], events[k])}
        last(k) == CHOOSE n \in matches(k) : \A m \in matches(k) : m <= n
    IN  [i \in {k \in 1..Len(events) : matches(k) /= {}} |-> savedDocs[last(i)].docId]

\* restoredMap after the forEach of restoreSavedState
restoredMap(events, savedDocs) ==
    [i \in {k \in 1..Len(events) : IsSome(find(savedDocs, events[k], 1))} |->
        TheVal(find(savedDocs, events[i], 1)).docId]

\* {...prev, [index]: newDocId} and delete newState[index]
MapPut(m, k, v) == [x \in (DOMAIN m) \cup {k} |-> IF x = k THEN v ELSE m[x]]
MapDel(m, k) == [x \in (DOMAIN m) \ {k} |-> m[x]]

\* the dependencies of the restore effect in the current render
EffectDeps == <<currentSession.id, currentSession.events>>

\* useEffect(..., [session.id, session.events]): after a render of AnalysisView
\* with new dependencies restoreSavedState is called; fetchSaved returns []
\* at once when there is no user, and awaits getDocs otherwise
RestoreStart ==
    /\ ~ChatMounted
    /\ restoreDeps /= Some(EffectDeps)
    /\ Len(restores) < MaxRestores
    /\ restoreDeps' = Some(EffectDeps)
    /\ restores' = Append(restores,
           [pc |-> IF signedIn THEN "fetching" ELSE "fetched",
            chatId |-> currentSession.id, events |-> currentSession.events,
            savedDocs |-> <<>>, fetchFailed |-> FALSE, mounted |-> TRUE])
    /\ UNCHANGED <<currentSession, chatState, isAnalyzing, subs, followups, loads, now,
                   storeState, epoch, savedEventIds, toggles, saved, signedIn, calc>>

\* getDocs is answered from the store (ok), or fails and fetchSaved returns []
RestoreFetched(r, ok) ==
    /\ restores[r].pc = "fetching"
    /\ restores' = [restores EXCEPT ![r].pc = "fetched",
                                    ![r].savedDocs = IF ok THEN SavedOf(restores[r].chatId)
                                                     ELSE <<>>,
                                    ![r].fetchFailed = ~ok]
    /\ UNCHANGED <<currentSession, chatState, isAnalyzing, subs, followups, loads, now,
                   storeState, epoch, savedEventIds, restoreDeps, toggles, saved, signedIn, calc>>

\* a restoreSavedState call that has returned
ReturnedRestore ==
    [pc |-> "done", chatId |-> "", events |-> <<>>, savedDocs |-> <<>>,
     fetchFailed |-> FALSE, mounted |-> FALSE]

\* restoreSavedState after its await: setSavedEventIds(restoredMap)
RestoreDone(r) ==
    /\ restores[r].pc = "fetched"
    /\ restores' = [restores EXCEPT ![r] = ReturnedRestore]
    /\ savedEventIds' = IF restores[r].mounted
                        THEN restoredMap(restores[r].events, restores[r].savedDocs)
                        ELSE savedEventIds
    /\ UNCHANGED <<currentSession, chatState, isAnalyzing, subs, followups, loads, now,
                   storeState, epoch, restoreDeps, toggles, saved, signedIn, calc>>

\* a handleToggleSave call that has returned
ReturnedToggle ==
    [pc |-> "done", index |-> 0, docId |-> None, chatId |-> "", event |-> <<>>,
     mounted |-> FALSE]

\* handleToggleSave(event, index, e) up to its first await that waits for the
\* network.  The click is handled after the effects of the last render ran.
\* Without a user saveSpecificEvent throws (the catch only logs) and
\* deleteSavedEvent returns, so the call runs to its end in this step.
handleToggleSave(index) ==
    /\ ~ChatMounted
    /\ restoreDeps = Some(EffectDeps)
    /\ index \in 1..Len(currentSession.events)
    /\ Len(toggles) < MaxToggles
    /\ LET existingDocId == IF index \in DOMAIN savedEventIds
                            THEN Some(savedEventIds[index]) ELSE None
           call == [pc |-> "saving", index |-> index, docId |-> existingDocId,
                    chatId |-> currentSession.id,
                    event |-> currentSession.events[index], mounted |-> TRUE]
       IN  IF IsSome(existingDocId)
           THEN IF signedIn
                THEN /\ toggles' = Append(toggles, [call EXCEPT !.pc = "deleting"])
                     /\ UNCHANGED savedEventIds
                ELSE /\ toggles' = Append(toggles, ReturnedToggle)
                     /\ savedEventIds' = MapDel(savedEventIds, index)
           ELSE IF signedIn
                THEN /\ toggles' = Append(toggles, call)
                     /\ UNCHANGED savedEventIds
                ELSE /\ toggles' = Append(toggles, ReturnedToggle)
                     /\ UNCHANGED savedEventIds
    /\ UNCHANGED <<currentSession, chatState, isAnalyzing, subs, followups, loads, now,
                   storeState, epoch, restoreDeps, restores, saved, signedIn, calc>>

\* seq with x put after its first pos elements
InsertAt(seq, pos, x) == SubSeq(seq, 1, pos) \o <<x>> \o SubSeq(seq, pos + 1, Len(seq))

\* addDoc resolves: the new document exists (getDocs without orderBy lists by
\* document id, so it may come before or after the others) and its id is cached
ToggleSaveDone(t, pos) ==
    /\ toggles[t].pc = "saving"
    /\ pos \in {0, Len(saved)}
    /\ saved' = InsertAt(saved, pos, Bookmark(toggles[t].chatId, t, toggles[t].event))
    /\ toggles' = [toggles EXCEPT ![t] = ReturnedToggle]
    /\ savedEventIds' = IF toggles[t].mounted
                        THEN MapPut(savedEventIds, toggles[t].index, t)
                        ELSE savedEventIds
    /\ UNCHANGED <<currentSession, chatState, isAnalyzing, subs, followups, loads, now,
                   storeState, epoch, restoreDeps, restores, signedIn, calc>>

\* deleteDoc resolves: the document of that path, if there is one, is gone
ToggleDeleteDone(t) ==
    /\ toggles[t].pc = "deleting"
    /\ saved' = SelectSeq(saved, LAMBDA b : ~(b.chatId = toggles[t].chatId
                                              /\ b.docId = TheVal(toggles[t].docId)))
    /\ toggles' = [toggles EXCEPT ![t] = ReturnedToggle]
    /\ savedEventIds' = IF toggles[t].mounted
                        THEN MapDel(savedEventIds, toggles[t].index)
                        ELSE savedEventIds
    /\ UNCHANGED <<currentSession, chatState, isAnalyzing, subs, followups, loads, now,
                   storeState, epoch, restoreDeps, restores, signedIn, calc>>

\* addDoc or deleteDoc rejects: the catch of handleToggleSave only logs
ToggleFail(t) ==
    /\ toggles[t].pc \in {"saving", "deleting"}
    /\ toggles' = [toggles EXCEPT ![t] = ReturnedToggle]
    /\ UNCHANGED <<currentSession, chatState, isAnalyzing, subs, followups, loads, now,
                   storeState, epoch, savedEventIds, restoreDeps, restores, saved, signedIn, calc>>

\* auth.currentUser becomes null (a signOut(auth) resolves, here or in another
\* tab of the browser).  The auth listener then makes App render the login
\* page; until that render the view on screen still handles events.
SignOut ==
    /\ signedIn
    /\ signedIn' = FALSE
    /\ UNCHANGED <<currentSession, chatState, isAnalyzing, subs, followups, loads, now,
                   storeState, epoch, savedEventIds, restoreDeps, restores, toggles, saved, calc>>

(***************************** specification *******************************)
\* the steps Date.now() may have advanced by since it was last read
ClockSteps == 0..2

Next ==
    \/ \E f \in Files : handleFileSelect(f)
    \/ \E p \in Prompts, byButton \in BOOLEAN, dt \in ClockSteps :
          handleSubmit(p, byButton, dt)
    \/ \E i \in 1..Len(subs) :
          \/ HashDone(i)
          \/ HashFail(i)
          \/ UploadDone(i)
          \/ \E stored \in BOOLEAN : UploadFail(i, stored)
          \/ \E data \in Responses : InferDone(i, data)
          \/ InferFail(i)
          \/ CreateDone(i)
          \/ SaveStep(i)
          \/ SaveFail(i)
    \/ handleNewChat
    \/ \E c \in 1..Len(chats) : handleSelectChat(c)
    \/ \E k \in 1..Len(loads), ok \in BOOLEAN : LoadDone(k, ok)
    \/ \E k \in 1..Len(currentSession.chatHistory) : handleViewResults(k)
    \/ onBack
    \/ \E p \in Prompts : handleFollowUpSubmit(p)
    \/ \E j \in 1..Len(followups) :
          \/ \E data \in Responses : FollowUpDone(j, data)
          \/ FollowUpFail(j)
          \/ \E dt \in ClockSteps : FollowUpSaveStep(j, dt)

Spec == Init /\ [][Next]_vars

(***************************** a returning user ****************************)
\* Firestore and Storage keep what earlier visits wrote.  The user comes back
\* to two chats: one whose document has no videoHash but a previewUrl of the
\* evidence/<hash>.mp4 form, with a saved prompt and its findings, and one
\* whose previewUrl is of another form and has no messages.
StoredFile == File("a.mp4", <<0, 1>>)

StoredChats ==
    << ChatDoc("chat1", "a.mp4", None, Some(DownloadUrl(generateHash(StoredFile)))),
       ChatDoc("chat2", "", None,
               Some([scheme |-> "https",
                     key |-> [dir |-> "uploads", hash |-> 0, ext |-> "mp4"]])) >>

StoredMessages ==
    << [id |-> 0 - 1, chatId |-> "chat1", role |-> "user", text |-> "p1",
        events |-> <<>>, src |-> <<"sub", 0>>],
       [id |-> 0 - 2, chatId |-> "chat1", role |-> "assistant", text |-> "",
        events |-> FormatEvents(<<SchemaFinding(0, 1, 5, 2, "car"),
                                  SchemaFinding(1, 0, 0, 4, "van")>>),
        src |-> <<"sub", 0>>] >>

InitReturning ==
    /\ currentSession = InitialSession
    /\ selectedFile = None
    /\ isProcessing = FALSE
    /\ errorMsg = ""
    /\ isHashing = FALSE
    /\ isAnalyzing = FALSE
    /\ subs = <<>>
    /\ followups = <<>>
    /\ loads = <<>>
    /\ now = 0
    /\ chats = StoredChats
    /\ messages = StoredMessages
    /\ objects = {StorageKey(generateHash(StoredFile))}
    /\ epoch = 0
    /\ savedEventIds = <<>>
    /\ restoreDeps = None
    /\ restores = <<>>
    /\ toggles = <<>>
    /\ saved = <<>>
    /\ signedIn = TRUE
    /\ calc = NoCalc

\* the returning user's visit is followed for a bounded number of calls
WithinVisit == Len(subs') + Len(followups') <= MaxReturningCalls

NextReturning ==
    \/ \E f \in Files : handleFileSelect(f)
    \/ \E p \in Prompts, byButton \in BOOLEAN, dt \in ClockSteps :
          handleSubmit(p, byButton, dt) /\ WithinVisit
    \/ \E i \in 1..Len(subs) :
          \/ HashDone(i)
          \/ HashFail(i)
          \/ UploadDone(i)
          \/ \E stored \in BOOLEAN : UploadFail(i, stored)
          \/ \E data \in Responses : InferDone(i, data)
          \/ InferFail(i)
          \/ CreateDone(i)
          \/ SaveStep(i)
          \/ SaveFail(i)
    \/ handleNewChat
    \/ \E c \in 1..Len(chats) : handleSelectChat(c)
    \/ \E k \in 1..Len(loads), ok \in BOOLEAN : LoadDone(k, ok)
    \/ \E k \in 1..Len(currentSession.chatHistory) : handleViewResults(k)
    \/ onBack
    \/ \E p \in Prompts : handleFollowUpSubmit(p) /\ WithinVisit
    \/ \E j \in 1..Len(followups) :
          \/ \E data \in Responses : FollowUpDone(j, data)
          \/ FollowUpFail(j)
          \/ \E dt \in ClockSteps : FollowUpSaveStep(j, dt)

SpecReturning == InitReturning /\ [][NextReturning]_vars

(***************************** a render behind the state *******************)
\* handleSelectChat: rawMessages.map(...) of what loadMessages returned
LoadedTurns(k, ok) ==
    LET rawMessages == IF ok THEN loadMessages(loads[k].chatId) ELSE <<>>
    IN  [n \in 1..Len(rawMessages) |-> FormatMessage(rawMessages[n])]

\* loadMessages resolves and, before ChatInterface is rendered with the new
\* state, the form is submitted: handleSubmit runs in the closure of the last
\* render, whose `session` is the session before the load was applied.  The
\* queued updaters run in order: handleSelectChat's setCurrentSession(prev =>
\* prev.id === chatId ? { ...prev, chatHistory: formattedMessages } : prev),
\* then handleSubmit's setSession(prev => ({ ...prev, chatHistory: newHistory })).
LoadThenSubmit(k, ok, prompt, dt) ==
    /\ loads[k].pc = "loading"
    /\ ChatMounted
    /\ prompt /= ""
    /\ IsSome(selectedFile) \/ IsSome(currentSession.gcsUri)
    /\ ClockRead(dt)
    /\ loads' = [loads EXCEPT ![k].pc = "done"]
    /\ LET session == currentSession
           i == Len(subs) + 1
           t == now + dt
           startsUpload == IsSome(selectedFile) /\ ~IsSome(session.gcsUri)
           newHistory == NewHistory(session.chatHistory, prompt, t, <<"sub", i>>)
           loaded == IF currentSession.id = loads[k].chatId
                     THEN [currentSession EXCEPT !.chatHistory = LoadedTurns(k, ok)]
                     ELSE currentSession
       IN  /\ currentSession' = [loaded EXCEPT !.chatHistory = newHistory]
           /\ subs' = Append(subs, NewSub(prompt, t, startsUpload))
           /\ isHashing' = IF startsUpload THEN TRUE ELSE isHashing
    /\ isProcessing' = TRUE
    /\ errorMsg' = ""
    /\ UNCHANGED <<selectedFile, isAnalyzing, followups, chats, messages, objects, epoch>>
    /\ UNCHANGED <<savedState, calc>>

NextRenderLag ==
    \/ NextReturning
    \/ \E k \in 1..Len(loads), ok \in BOOLEAN, p \in Prompts, dt \in ClockSteps :
          LoadThenSubmit(k, ok, p, dt) /\ WithinVisit

SpecRenderLag == InitReturning /\ [][NextRenderLag]_vars

(***************************** follow-ups of a returning user **************)
\* The returning user opens a stored chat, views its results and asks
\* follow-up questions, leaving and re-entering the analysis view.
NextFollowUps ==
    \/ handleNewChat
    \/ \E c \in 1..Len(chats) : handleSelectChat(c)
    \/ \E k \in 1..Len(loads), ok \in BOOLEAN : LoadDone(k, ok)
    \/ \E k \in 1..Len(currentSession.chatHistory) : handleViewResults(k)
    \/ onBack
    \/ \E p \in Prompts : handleFollowUpSubmit(p)
    \/ \E j \in 1..Len(followups) :
          \/ \E data \in Responses : FollowUpDone(j, data)
          \/ FollowUpFail(j)
          \/ \E dt \in ClockSteps : FollowUpSaveStep(j, dt)

SpecFollowUps == InitReturning /\ [][NextFollowUps]_vars

(***************************** switching between chats *********************)
\* the returning user changes session up to MaxSwitches times
MaxSwitches == 3

NextSwitch ==
    \/ epoch < MaxSwitches /\ newChat
    \/ \E c \in 1..Len(chats) : epoch < MaxSwitches /\ selectChat(c)
    \/ \E k \in 1..Len(loads), ok \in BOOLEAN : LoadDone(k, ok)
    \/ \E k \in 1..Len(currentSession.chatHistory) : handleViewResults(k)
    \/ onBack

SpecSwitch == InitReturning /\ [][NextSwitch]_vars

(***************************** copies of the same evidence ****************)
\* The returning user's files: a copy of the stored chat's evidence under
\* another name, the evidence itself, and a different video.
CopyFiles == { File("copy.mp4", StoredFile.bytes), StoredFile, File("b.mp4", <<1>>) }

NextCopies ==
    \/ \E f \in CopyFiles : handleFileSelect(f)
    \/ \E p \in Prompts, byButton \in BOOLEAN, dt \in ClockSteps :
          handleSubmit(p, byButton, dt) /\ WithinVisit
    \/ \E i \in 1..Len(subs) :
          \/ HashDone(i)
          \/ HashFail(i)
          \/ UploadDone(i)
          \/ \E stored \in BOOLEAN : UploadFail(i, stored)
          \/ \E data \in Responses : InferDone(i, data)
          \/ InferFail(i)
          \/ CreateDone(i)
          \/ SaveStep(i)
          \/ SaveFail(i)
    \/ handleNewChat
    \/ \E c \in 1..Len(chats) : handleSelectChat(c)
    \/ \E k \in 1..Len(loads), ok \in BOOLEAN : LoadDone(k, ok)

SpecCopies == InitReturning /\ [][NextCopies]_vars

(***************************** a returning user's bookmarks *****************)
\* The bookmarks earlier visits left: four of chat1, listed in the order getDocs
\* returns them (for the car at 65 s: 0.1 s away, another summary, 0.05 s away,
\* exact), and one for the van at 3600 s, written under chats/new-session
\* before that session's chat document existed.  The visit is followed
\* without new submissions and follow-ups.
StoredBookmark(chatId, docId, from, summary) ==
    [chatId |-> chatId, docId |-> docId, fromTimestamp |-> JSNum(from),
     toTimestamp |-> JSNum(from + 200), summary |-> summary, confidence |-> JSNum(80)]

StoredBookmarks ==
    << StoredBookmark("chat1", 0 - 3, 6510, "car"),
       StoredBookmark("chat1", 0 - 4, 6500, "van"),
       StoredBookmark("chat1", 0 - 1, 6505, "car"),
       StoredBookmark("chat1", 0 - 2, 6500, "car"),
       StoredBookmark("new-session", 0 - 5, 360000, "van") >>

InitSaved ==
    /\ currentSession = InitialSession
    /\ selectedFile = None
    /\ isProcessing = FALSE
    /\ errorMsg = ""
    /\ isHashing = FALSE
    /\ isAnalyzing = FALSE
    /\ subs = <<>>
    /\ followups = <<>>
    /\ loads = <<>>
    /\ now = 0
    /\ chats = StoredChats
    /\ messages = StoredMessages
    /\ objects = {StorageKey(generateHash(StoredFile))}
    /\ epoch = 0
    /\ savedEventIds = <<>>
    /\ restoreDeps = None
    /\ restores = <<>>
    /\ toggles = <<>>
    /\ saved = StoredBookmarks
    /\ signedIn = TRUE
    /\ calc = NoCalc

NextSaved ==
    \/ handleNewChat
    \/ \E c \in 1..Len(chats) : handleSelectChat(c)
    \/ \E k \in 1..Len(loads), ok \in BOOLEAN : LoadDone(k, ok)
    \/ \E k \in 1..Len(currentSession.chatHistory) : handleViewResults(k)
    \/ onBack
    \/ RestoreStart
    \/ \E r \in 1..Len(restores) :
          \/ \E ok \in BOOLEAN : RestoreFetched(r, ok)
          \/ RestoreDone(r)
    \/ \E index \in 1..Len(currentSession.events) : handleToggleSave(index)
    \/ \E t \in 1..Len(toggles) :
          \/ \E pos \in {0, Len(saved)} : ToggleSaveDone(t, pos)
          \/ ToggleDeleteDone(t)
          \/ ToggleFail(t)
    \/ SignOut

SpecSaved == InitSaved /\ [][NextSaved]_vars

\* The same visit with one follow-up question, whose answer lists no finding
\* (the events array is replaced by an equal one and the restore effect runs
\* again on the mounted view), and with the user staying signed in.
NextRefetch ==
    \/ handleNewChat
    \/ \E c \in 1..Len(chats) : handleSelectChat(c)
    \/ \E k \in 1..Len(loads), ok \in BOOLEAN : LoadDone(k, ok)
    \/ \E k \in 1..Len(currentSession.chatHistory) : handleViewResults(k)
    \/ onBack
    \/ \E p \in Prompts : handleFollowUpSubmit(p) /\ WithinVisit
    \/ \E j \in 1..Len(followups) :
          \/ FollowUpDone(j, Response(Some(<<>>), ""))
          \/ FollowUpFail(j)
          \/ FollowUpSaveStep(j, 0)
    \/ RestoreStart
    \/ \E r \in 1..Len(restores) :
          \/ \E ok \in BOOLEAN : RestoreFetched(r, ok)
          \/ RestoreDone(r)
    \/ \E index \in 1..Len(currentSession.events) : handleToggleSave(index)
    \/ \E t \in 1..Len(toggles) :
          \/ \E pos \in {0, Len(saved)} : ToggleSaveDone(t, pos)
          \/ ToggleDeleteDone(t)
          \/ ToggleFail(t)

SpecRefetch == InitSaved /\ [][NextRefetch]_vars

(***************************** functions evaluated on their own ************)
\* A function of the code is evaluated on an argument drawn at the start; the
\* App is left as constructed.

\* what a ':'-separated component of a timestamp string can be
Components == {Digits(0), Digits(1), Digits(2), Digits(3), EmptyPart, TextPart}

\* the arguments of parseTimestampToSeconds: strings of one to three
\* components, four-component strings of digits, numbers, NaN and undefined
TimeInputs ==
    {JSStr(<<a>>) : a \in Components}
    \cup {JSStr(<<a, b>>) : a \in Components, b \in Components}
    \cup {JSStr(<<a, b, c>>) : a \in Components, b \in Components, c \in Components}
    \cup {JSStr(<<Digits(a), Digits(b), Digits(c), Digits(d)>>) :
             a \in 1..2, b \in 1..2, c \in 1..2, d \in 1..2}
    \cup {JSNum(0), JSNum(4200), JSNum(0 - 500), JSNum(6505), JSNaN, JSUndef}

InitParse ==
    /\ AppInit
    /\ calc \in {[fn |-> "parseTimestampToSeconds", arg |-> x, result |-> None] :
                    x \in TimeInputs}

appState == <<currentSession, chatState, isAnalyzing, subs, followups, loads, now,
              storeState, epoch, savedState>>

ParseStep ==
    /\ calc.fn = "parseTimestampToSeconds"
    /\ calc.result = None
    /\ calc' = [calc EXCEPT !.result = Some(parseTimestampToSeconds(calc.arg))]
    /\ UNCHANGED appState

SpecParse == InitParse /\ [][ParseStep]_vars

\* The raw findings the two maps are evaluated on: every combination of
\* absent, 0, 5 and "0:07" in the three start fields with absent or 9 in the
\* two end fields, and every combination of the text fields with a confidence
\* that is absent, 0, in range, out of range or NaN.
StartValues == {JSUndef, JSNum(0), JSNum(500), JSStr(<<Digits(0), Digits(7)>>)}
EndValues == {JSUndef, JSNum(900)}
ConfidenceValues ==
    {JSUndef, JSNum(0), JSNum(50), JSNum(95), JSNum(150), JSNum(0 - 10), JSNaN}

RawFindings ==
    {RawFinding(start, timestamp, from, end, to, "", "evt", JSUndef) :
        start \in StartValues, timestamp \in StartValues, from \in StartValues,
        end \in EndValues, to \in EndValues}
    \cup {RawFinding(JSNum(500), JSUndef, JSNum(500), JSUndef, JSNum(900),
                     description, summary, confidence) :
             description \in {"", "d"}, summary \in {"", "s"},
             confidence \in ConfidenceValues}

InitFormat ==
    /\ AppInit
    /\ calc \in {[fn |-> f, arg |-> t, result |-> None] :
                    f \in {"FormatEvent", "FollowUpEvent"}, t \in RawFindings}

\* one element of data.timestamps.map(...) in handleSubmit
FormatStep ==
    /\ calc.fn = "FormatEvent"
    /\ calc.result = None
    /\ calc' = [calc EXCEPT !.result = Some(FormatEvent(calc.arg))]
    /\ UNCHANGED appState

\* one element of data.timestamps.map(...) in handleFollowUpSubmit
FollowUpFormatStep ==
    /\ calc.fn = "FollowUpEvent"
    /\ calc.result = None
    /\ calc' = [calc EXCEPT !.result = Some(FollowUpEvent(calc.arg))]
    /\ UNCHANGED appState

NextFormat == FormatStep \/ FollowUpFormatStep

SpecFormat == InitFormat /\ [][NextFormat]_vars

(***************************** an untrusted inference service ***************)
\* The answers of getTimestampsFromGemini are not checked by the cloud
\* function: findings with absent fields, an end before the start, negative
\* times, a confidence out of range, and text where a time should be.  Each
\* finding carries its times under the names both maps read.
UntrustedFinding(from, to, summary, confidence) ==
    RawFinding(from, JSUndef, from, to, to, "", summary, confidence)

UntrustedFindings ==
    { UntrustedFinding(JSNum(500), JSNum(900), "car", JSNum(80)),
      UntrustedFinding(JSUndef, JSUndef, "", JSUndef),
      UntrustedFinding(JSNum(900), JSNum(100), "car", JSNum(80)),
      UntrustedFinding(JSNum(0 - 500), JSNum(900), "car", JSNum(80)),
      UntrustedFinding(JSNum(500), JSNum(900), "car", JSNum(150)),
      UntrustedFinding(JSNum(500), JSNum(900), "car", JSNum(0 - 10)),
      UntrustedFinding(JSStr(<<TextPart>>), JSStr(<<TextPart>>), "car", JSNum(80)) }

UntrustedResponses ==
    {Response(None, "")} \cup {Response(Some(<<t>>), "") : t \in UntrustedFindings}

\* one visit: submissions and follow-up questions whose calls all succeed
NextUntrusted ==
    \/ \E f \in Files : handleFileSelect(f)
    \/ \E p \in Prompts, byButton \in BOOLEAN : handleSubmit(p, byButton, 0)
    \/ \E i \in 1..Len(subs) :
          \/ HashDone(i)
          \/ UploadDone(i)
          \/ \E data \in UntrustedResponses : InferDone(i, data)
          \/ CreateDone(i)
          \/ SaveStep(i)
    \/ \E k \in 1..Len(currentSession.chatHistory) : handleViewResults(k)
    \/ onBack
    \/ \E p \in Prompts : handleFollowUpSubmit(p)
    \/ \E j \in 1..Len(followups) :
          \/ \E data \in UntrustedResponses : FollowUpDone(j, data)
          \/ FollowUpSaveStep(j, 0)

SpecUntrusted == Init /\ [][NextUntrusted]_vars

(***************************** useFileHash: generateHash ********************)
\* Two generateHash calls of one hook instance, on files drawn at the start,
\* which may run one after the other or overlap.  calc.result holds the
\* hook's hash and progress and, per call, its position (pc), its own sha256
\* instance (acc), the number of bytes read from the stream (pos) and the
\* value the call resolved with.
HashFiles ==
    { File("a.mp4", <<0, 1, 1>>), File("c.mp4", <<0, 1, 1>>), File("b.mp4", <<1, 0>>) }

NewHashCall == [pc |-> "new", acc |-> 0, pos |-> 0, value |-> None]

InitHash ==
    /\ AppInit
    /\ calc \in {[fn |-> "generateHash", arg |-> <<f, g>>,
                  result |-> [hash |-> None, progress |-> 0,
                              calls |-> <<NewHashCall, NewHashCall>>]] :
                    f \in HashFiles, g \in HashFiles}

hashFrame == <<currentSession, selectedFile, isProcessing, errorMsg, isAnalyzing, subs,
               followups, loads, now, storeState, epoch, savedState>>

\* Math.round((processedSize / totalSize) * 100)
Percent(processedSize, totalSize) == (200 * processedSize + totalSize) \div (2 * totalSize)

\* generateHash(file) up to its first reader.read(): the hook's state is
\* reset, a sha256 instance is created for the call and initialised
HashCall(c) ==
    /\ calc.fn = "generateHash"
    /\ calc.result.calls[c].pc = "new"
    /\ isHashing' = TRUE
    /\ calc' = [calc EXCEPT !.result.hash = None, !.result.progress = 0,
                            !.result.calls[c].pc = "reading"]
    /\ UNCHANGED hashFrame

\* a chunk whose update is applied to the bytes up to the last one only
HashChunk_DropsLastByte(c, n) ==
    LET call == calc.result.calls[c]
        bytes == calc.arg[c].bytes
    IN  /\ calc.fn = "generateHash"
        /\ call.pc = "reading"
        /\ n \in 1..(Len(bytes) - call.pos)
        /\ calc' = [calc EXCEPT
              !.result.calls[c].acc =
                  DigestFrom(call.acc, SubSeq(bytes, call.pos + 1, call.pos + n - 1)),
              !.result.calls[c].pos = call.pos + n,
              !.result.progress = Percent(call.pos + n, Len(bytes))]
        /\ UNCHANGED <<hashFrame, isHashing>>

\* reader.read() returns the next n bytes: sha256.update(value), setProgress
HashChunk(c, n) ==
    LET call == calc.result.calls[c]
        bytes == calc.arg[c].bytes
    IN  /\ calc.fn = "generateHash"
        /\ call.pc = "reading"
        /\ n \in 1..(Len(bytes) - call.pos)
        /\ calc' = [calc EXCEPT
              !.result.calls[c].acc =
                  DigestFrom(call.acc, SubSeq(bytes, call.pos + 1, call.pos + n)),
              !.result.calls[c].pos = call.pos + n,
              !.result.progress = Percent(call.pos + n, Len(bytes))]
        /\ UNCHANGED <<hashFrame, isHashing>>

\* reader.read() returns done: digest, setHash(hex), return hex; finally
HashFinish(c) ==
    LET call == calc.result.calls[c]
    IN  /\ calc.fn = "generateHash"
        /\ call.pc = "reading"
        /\ call.pos = Len(calc.arg[c].bytes)
        /\ isHashing' = FALSE
        /\ calc' = [calc EXCEPT !.result.calls[c].pc = "resolved",
                                !.result.calls[c].value = Some(call.acc),
                                !.result.hash = Some(call.acc),
                                !.result.progress = 100]
        /\ UNCHANGED hashFrame

\* reader.read() rejects: the catch rethrows; finally
HashReadError(c) ==
    LET call == calc.result.calls[c]
    IN  /\ calc.fn = "generateHash"
        /\ call.pc = "reading"
        /\ call.pos < Len(calc.arg[c].bytes)
        /\ isHashing' = FALSE
        /\ calc' = [calc EXCEPT !.result.calls[c].pc = "rejected",
                                !.result.progress = 100]
        /\ UNCHANGED hashFrame

NextHash ==
    \E c \in 1..2 :
       \/ HashCall(c)
       \/ \E n \in 1..3 : HashChunk(c, n)
       \/ HashFinish(c)
       \/ HashReadError(c)

SpecHash == InitHash /\ [][NextHash]_vars

(***************************** ChatInterface: the report *******************)
\* the report is followed for timelines of at most MaxReportEvents events
MaxReportEvents == 3
\* and until MaxReports memos have been generated
MaxReports == 2

ReportEvent(from, summary, confidence) ==
    [fromTimestamp |-> from, toTimestamp |-> JSAdd(from, JSNum(200)),
     summary |-> summary, confidence |-> confidence]

\* the findings a timeline is made of: two pairs that share a fromTimestamp,
\* confidences at and around 0.9 and 0.7, one event of an hour, and one with
\* the NaN timestamp and the missing confidence that unvalidated findings have
ReportEvents ==
    << ReportEvent(JSNum(6500), "car", JSNum(95)),
       ReportEvent(JSNum(500), "van", JSNum(90)),
       ReportEvent(JSNum(500), "car", JSNum(91)),
       ReportEvent(JSNum(360000), "van", JSNum(70)),
       ReportEvent(JSNum(6500), "car", JSNum(71)),
       ReportEvent(JSNaN, "car", JSUndef) >>

\* the session's events: the findings of a choice of at most MaxReportEvents
\* positions of ReportEvents, in that order
Timelines ==
    { SelectSeq([k \in 1..Len(ReportEvents) |-> <<k, ReportEvents[k]>>],
                LAMBDA pair : pair[1] \in chosen) :
         chosen \in { c \in SUBSET (1..Len(ReportEvents)) :
                         Cardinality(c) \in 1..MaxReportEvents } }

\* The state of the dialog (isReportModalOpen, savedEvents), the saved
\* collection in the order getDocs returns it (by document id; addDoc's ids
\* are random, so a new document comes first or last), the view shown, and the
\* memos generated so far.  Every event of the timeline starts bookmarked.
\* Document ids are only compared with each other: the bookmark of the k-th
\* finding of ReportEvents has the id -k each time it is created.
InitReport ==
    /\ AppInit
    /\ calc \in {[fn |-> "report",
                  arg |-> [videoName |-> name, events |-> T],
                  result |-> [store |-> [k \in 1..Len(T) |->
                                            Bookmark("chat1", 0 - T[k][1], T[k][2])],
                              view |-> "chat",
                              isReportModalOpen |-> FALSE,
                              pending |-> 0,
                              savedEvents |-> <<>>,
                              crashed |-> FALSE,
                              reports |-> <<>>]] :
                    name \in {"", "a.mp4"}, T \in Timelines}

reportFrame == <<currentSession, selectedFile, isProcessing, errorMsg, isHashing,
                 isAnalyzing, subs, followups, loads, now, storeState, epoch, savedState>>

Report == calc.result

\* the report is followed while the page is up and memos remain to be generated
ReportRuns == calc.fn = "report" /\ ~Report.crashed /\ Len(Report.reports) < MaxReports

IsNum(x) == x.t = "num"

\* (a, b) => a.fromTimestamp - b.fromTimestamp is negative
ComesBefore(a, b) == a.fromTimestamp.n < b.fromTimestamp.n

\* the place a stable sort gives e in the sorted list: behind every element
\* that does not come after it
RECURSIVE InsertSorted(_, _)
InsertSorted(sorted, e) ==
    IF sorted = <<>> THEN <<e>>
    ELSE IF ComesBefore(e, Head(sorted)) THEN <<e>> \o sorted
    ELSE <<Head(sorted)>> \o InsertSorted(Tail(sorted), e)

RECURSIVE SortFrom(_, _)
SortFrom(sorted, rest) ==
    IF rest = <<>> THEN sorted
    ELSE SortFrom(InsertSorted(sorted, Head(rest)), Tail(rest))

PermutationsOf(events) ==
    { [k \in 1..Len(events) |-> events[p[k]]] :
         p \in { q \in [1..Len(events) -> 1..Len(events)] :
                    \A i, j \in 1..Len(events) : i /= j => q[i] /= q[j] } }

\* events.sort((a, b) => a.fromTimestamp - b.fromTimestamp): the stable order
\* when every difference is a number; with a NaN difference the comparator is
\* not consistent and the order is whatever the engine leaves
SortOutcomes(events) ==
    IF \A k \in 1..Len(events) : IsNum(events[k].fromTimestamp)
    THEN {SortFrom(<<>>, events)}
    ELSE PermutationsOf(events)

\* the dialog's list renders new Date(fromTimestamp * 1000).toISOString() for
\* each saved event, which throws on NaN: the render fails
RenderFails(open, events) ==
    open /\ \E k \in 1..Len(events) : ~IsNum(events[k].fromTimestamp)

\* new Date(fromTimestamp * 1000).toISOString().substr(14, 5): minutes and seconds
TimeCode(from) ==
    LET seconds == from.n \div 100
    IN  [mm |-> (seconds \div 60) % 60, ss |-> seconds % 60]

\* the label with 0.9 itself counted as high
clarity_Inclusive(confidence) ==
    IF IsNum(confidence) /\ confidence.n >= 90 THEN "High Clarity"
    ELSE IF IsNum(confidence) /\ confidence.n > 70 THEN "Moderate Visibility"
    ELSE "Low / Obstructed"

\* let clarity = "Low / Obstructed"; if (e.confidence > 0.9) ...; else if (> 0.7) ...
clarity(confidence) ==
    IF IsNum(confidence) /\ confidence.n > 90 THEN "High Clarity"
    ELSE IF IsNum(confidence) /\ confidence.n > 70 THEN "Moderate Visibility"
    ELSE "Low / Obstructed"

\* generateNarrative(): the opening with the evidence name, a sentence per
\* saved event, the closing
generateNarrative(videoName, events) ==
    [opening |-> IF videoName /= "" THEN videoName ELSE "Evidence File",
     sentences |-> [k \in 1..Len(events) |->
                       [timeStr |-> TimeCode(events[k].fromTimestamp),
                        summary |-> events[k].summary]],
     closing |-> "These segments have been isolated"]

\* findingsData: a row [time code, summary, clarity] per saved event
findingsData(events) ==
    [k \in 1..Len(events) |->
        <<TimeCode(events[k].fromTimestamp), events[k].summary,
          clarity(events[k].confidence)>>]

\* the "Generate Report" button of the chat view: the dialog opens and the
\* effect calls loadSaved
OpenReport ==
    /\ ReportRuns
    /\ Report.view = "chat" /\ ~Report.isReportModalOpen
    /\ Report.pending < 2
    /\ calc' = [calc EXCEPT !.result.isReportModalOpen = TRUE,
                            !.result.pending = @ + 1,
                            !.result.crashed = RenderFails(TRUE, Report.savedEvents)]
    /\ UNCHANGED reportFrame

\* the dialog's close button
CloseReport ==
    /\ ReportRuns
    /\ Report.view = "chat" /\ Report.isReportModalOpen
    /\ calc' = [calc EXCEPT !.result.isReportModalOpen = FALSE]
    /\ UNCHANGED reportFrame

\* loadSaved after its await: fetchSaved returned the collection (ok) or, on
\* an error, []; setSavedEvents(events.sort(...))
loadSaved(ok, sorted) ==
    /\ ReportRuns
    /\ Report.view = "chat" /\ Report.pending > 0
    /\ sorted \in SortOutcomes(IF ok THEN Report.store ELSE <<>>)
    /\ calc' = [calc EXCEPT !.result.pending = @ - 1,
                            !.result.savedEvents = sorted,
                            !.result.crashed =
                               RenderFails(Report.isReportModalOpen, sorted)]
    /\ UNCHANGED reportFrame

\* handleUnsave(docId) of the k-th row: deleteSavedEvent resolves (the
\* document is gone) and the event is filtered out of savedEvents, or it
\* rejects and handleUnsave ends there
handleUnsave(k, ok) ==
    /\ ReportRuns
    /\ Report.view = "chat" /\ Report.isReportModalOpen
    /\ k \in 1..Len(Report.savedEvents)
    /\ LET docId == Report.savedEvents[k].docId
       IN  calc' = [calc EXCEPT
                      !.result.store = IF ok THEN SelectSeq(@, LAMBDA b : b.docId /= docId)
                                       ELSE @,
                      !.result.savedEvents =
                          IF ok THEN SelectSeq(@, LAMBDA b : b.docId /= docId) ELSE @]
    /\ UNCHANGED reportFrame

\* generateInvestigativeMemo(): the narrative and the table of the memo; the
\* saved events they were made from are kept with them
generateInvestigativeMemo ==
    /\ ReportRuns
    /\ Report.view = "chat" /\ Report.isReportModalOpen
    /\ calc' = [calc EXCEPT !.result.reports =
                   Append(@, [narrative |-> generateNarrative(calc.arg.videoName,
                                                              Report.savedEvents),
                              rows |-> findingsData(Report.savedEvents),
                              savedEvents |-> Report.savedEvents])]
    /\ UNCHANGED reportFrame

\* "View results" of a turn: the analysis view replaces the chat view, whose
\* dialog state is discarded and whose pending loadSaved sets nothing any more
ViewReportResults ==
    /\ ReportRuns
    /\ Report.view = "chat"
    /\ calc' = [calc EXCEPT !.result.view = "analysis",
                            !.result.isReportModalOpen = FALSE,
                            !.result.pending = 0,
                            !.result.savedEvents = <<>>]
    /\ UNCHANGED reportFrame

\* the analysis view's back button
BackToChat ==
    /\ ReportRuns
    /\ Report.view = "analysis"
    /\ calc' = [calc EXCEPT !.result.view = "chat"]
    /\ UNCHANGED reportFrame

\* handleToggleSave of timeline event k with the cache restored: the event's
\* bookmark is deleted, or a bookmark is added, whose new id sorts first
\* (atFront) or last among the collection's documents
ToggleBookmark(k, atFront) ==
    /\ ReportRuns
    /\ Report.view = "analysis"
    /\ k \in 1..Len(calc.arg.events)
    /\ LET docId == 0 - calc.arg.events[k][1]
           isSaved == \E n \in 1..Len(Report.store) : Report.store[n].docId = docId
           added == Bookmark("chat1", docId, calc.arg.events[k][2])
       IN  IF isSaved
           THEN /\ atFront
                /\ calc' = [calc EXCEPT !.result.store =
                               SelectSeq(@, LAMBDA b : b.docId /= docId)]
           ELSE calc' = [calc EXCEPT !.result.store =
                            IF atFront THEN <<added>> \o @ ELSE Append(@, added)]
    /\ UNCHANGED reportFrame

NextReport ==
    \/ OpenReport
    \/ CloseReport
    \/ \E ok \in BOOLEAN :
          \E sorted \in PermutationsOf(IF ok THEN Report.store ELSE <<>>) :
             loadSaved(ok, sorted)
    \/ \E k \in 1..MaxReportEvents, ok \in BOOLEAN : handleUnsave(k, ok)
    \/ generateInvestigativeMemo
    \/ ViewReportResults
    \/ BackToChat
    \/ \E k \in 1..MaxReportEvents, atFront \in BOOLEAN : ToggleBookmark(k, atFront)

SpecReport == InitReport /\ [][NextReport]_vars

(***************************** properties **********************************)
History == currentSession.chatHistory

\* the handleSubmit call i has not yet reached the code that resolves its placeholder
Unresolved(i) == subs[i].pc \in {"hashing", "uploading", "inferring"}


\* the positions of the assistant turn that call i created
PlaceholderOf(i) ==
    {k \in 1..Len(History) : History[k].src = <<"sub", i>> /\ History[k].role = "ai"}

PendingTurns == {k \in 1..Len(History) : History[k].role = "ai" /\ History[k].isLoading}

\* C1: in every reachable state at most one assistant turn of chatHistory is
\* pending (isLoading); a handleSubmit call made while a placeholder is pending
\* adds no second one.
C1_AtMostOnePending == Cardinality(PendingTurns) <= 1

\* C2: assistant turns are resolved in submission order: whenever the
\* placeholder of a later submission has isLoading cleared, so has the
\* placeholder of every earlier submission of the session.
C2_ResolvedInSubmissionOrder ==
    \A i, j \in 1..Len(subs) :
        i < j =>
            \A ki \in PlaceholderOf(i), kj \in PlaceholderOf(j) :
                ~History[kj].isLoading => ~History[ki].isLoading

\* C3: every accepted submission resolves its own placeholder, whatever the
\* outcome of the pipeline (timestamps, no timestamps, upload throws,
\* inference throws): once the call has left its try block, the assistant turn
\* it created is no longer pending.
C3_EveryOutcomeResolves ==
    \A i \in 1..Len(subs) :
        ~Unresolved(i) => \A k \in PlaceholderOf(i) : ~History[k].isLoading

\* C4: once the session has hash and gcsUri, no later handleSubmit call of the
\* session calls generateHash or uploadBytes; so over any sequence of
\* submissions, overlapping ones included, at most one handleSubmit call of a
\* session calls generateHash and at most one calls uploadBytes.
C4_NoRehashOnceStored ==
    \A p \in Prompts, byButton \in BOOLEAN, dt \in ClockSteps :
        (handleSubmit(p, byButton, dt) /\ IsSome(currentSession.gcsUri)
         /\ IsSome(currentSession.hash) /\ Len(subs') > Len(subs))
            => ~subs'[Len(subs')].hashed

C4_HashedAndUploadedOnce ==
    \A e \in 0..MaxResets :
        /\ Cardinality({i \in 1..Len(subs) : subs[i].epoch = e /\ subs[i].hashed}) <= 1
        /\ Cardinality({i \in 1..Len(subs) : subs[i].epoch = e /\ subs[i].uploaded}) <= 1

C4_UploadOnce == [][C4_NoRehashOnceStored]_vars /\ [] C4_HashedAndUploadedOnce

\* C5: when the session was replaced (handleNewChat, handleSelectChat) while a
\* submission was in flight, no later step of that submission changes a field
\* of the now-current session.
C5_StaleStepLeavesSession ==
    \A i \in 1..Len(subs) :
        (subs[i].epoch < epoch /\ subs'[i].pc /= subs[i].pc)
            => currentSession' = currentSession

C5_StaleResultIgnored == [][C5_StaleStepLeavesSession]_vars

Status == currentSession.status
Events == currentSession.events

IsPrefix(s, t) == Len(s) <= Len(t) /\ SubSeq(t, 1, Len(s)) = s

\* the findings batches held by the assistant turns of chatHistory
Batches ==
    {TheVal(History[k].analysisData).events :
        k \in {n \in 1..Len(History) : IsSome(History[n].analysisData)}}

C7_UserTurnFollowedByItsAssistantTurn ==
    \A k \in 1..Len(History) :
        History[k].role = "user"
            => /\ k < Len(History)
               /\ History[k + 1].role = "ai"
               /\ History[k + 1].src = History[k].src

\* C8: the step in which a submission resolves its placeholder changes no turn
\* of chatHistory other than the assistant turn that submission created.
C8_ResolveChangesOwnPlaceholderOnly ==
    [][ \A i \in 1..Len(subs) :
           (Unresolved(i) /\ subs'[i].pc /= subs[i].pc /\ Len(History') = Len(History))
               => \A k \in 1..Len(History) :
                     History'[k] /= History[k]
                         => History[k].src = <<"sub", i>> /\ History[k].role = "ai" ]_vars

FirstSubmissionOnly ==
    epoch = 0 /\ Len(subs) = 1 /\ subs[1].hashed /\ followups = <<>>

ResolvedTurns ==
    {k \in 1..Len(History) :
        History[k].role = "ai" /\ ~History[k].isLoading /\ IsSome(History[k].analysisData)}

FailStep(i) ==
    \/ HashFail(i)
    \/ \E stored \in BOOLEAN : UploadFail(i, stored)
    \/ InferFail(i)

FailureText == "Failed to analyze video."

GcsUriAtSubmit(i) == IF subs[i].hashed THEN None ELSE subs[i].currentGcsUri

StartsCall == Len(subs') = Len(subs) + 1
NewCall == subs'[Len(subs')]

\* C13: a retry resumes at the failed stage.  When the inference of a call
\* that uploaded fails, the session holds the gcsUri of that call's upload; a
\* failed hash or upload leaves the file selected and gcsUri unset; a
\* handleSubmit call on a session with gcsUri calls neither generateHash nor
\* uploadBytes and calls inference with the session's gcsUri, a call on a
\* session without gcsUri hashes and uploads the selected file again.
C13_RetryResumesAtFailedStage ==
    [][ /\ \A i \in 1..Len(subs) :
              /\ InferFail(i) => currentSession'.gcsUri = currentSession.gcsUri
              /\ (InferFail(i) /\ subs[i].uploaded /\ subs[i].epoch = epoch)
                    => currentSession'.gcsUri = subs[i].currentGcsUri
              /\ (HashFail(i) \/ \E stored \in BOOLEAN : UploadFail(i, stored))
                    => /\ selectedFile' = selectedFile
                       /\ currentSession'.gcsUri = currentSession.gcsUri
        /\ StartsCall =>
              IF IsSome(currentSession.gcsUri)
              THEN /\ ~NewCall.hashed
                   /\ NewCall.pc = "inferring"
                   /\ NewCall.currentGcsUri = currentSession.gcsUri
              ELSE /\ IsSome(selectedFile)
                   /\ NewCall.hashed
                   /\ NewCall.pc = "hashing"
                   /\ NewCall.file = selectedFile ]_vars

\* C14: a handleSubmit call with an empty prompt, or with no file selected on
\* a session without gcsUri, changes nothing of the session (chatHistory,
\* events, status, hash, gcsUri) and starts no hash, upload, inference or
\* persistence call; the second case only sets errorMsg.
C14_RejectedSubmitChangesNothing ==
    [][ \A p \in Prompts, byButton \in BOOLEAN, dt \in ClockSteps :
           (/\ handleSubmit(p, byButton, dt)
            /\ p = "" \/ (~IsSome(selectedFile) /\ ~IsSome(currentSession.gcsUri)))
               => /\ currentSession' = currentSession
                  /\ subs' = subs
                  /\ followups' = followups
                  /\ <<chats, messages, objects>>' = <<chats, messages, objects>>
                  /\ isHashing' = isHashing /\ isProcessing' = isProcessing
                  /\ p /= "" => errorMsg' = "Please upload a video." ]_vars

\* a prompt was submitted with no video: the error is shown, nothing else changed
C14_Witness ==
    /\ errorMsg = "Please upload a video."
    /\ currentSession = InitialSession
    /\ subs = <<>>
    /\ objects = {} /\ messages = <<>> /\ chats = <<>>

\* the step starts a handleSubmit call on a session that has a gcsUri, with a
\* file selected whose content is not the session's video
SubmitsOtherFile ==
    /\ StartsCall
    /\ IsSome(currentSession.gcsUri)
    /\ IsSome(selectedFile)
    /\ Some(generateHash(TheVal(selectedFile))) /= currentSession.hash

C16_NewChatResetsSession ==
    [][ handleNewChat
           => /\ Status' = "idle"
              /\ Events' = <<>>
              /\ History' = <<>>
              /\ ~IsSome(currentSession'.hash)
              /\ ~IsSome(currentSession'.gcsUri)
              /\ ~IsSome(currentSession'.videoUrl)
              /\ currentSession'.id \in SentinelIds ]_vars

\* New Chat was clicked on a session that showed the results of a saved
\* analysis: the session is empty again
C16_Witness ==
    /\ epoch = 1
    /\ currentSession.id = "new"
    /\ Status = "idle" /\ Events = <<>> /\ History = <<>>
    /\ ~IsSome(currentSession.hash) /\ ~IsSome(currentSession.gcsUri)
    /\ chats /= <<>> /\ objects /= {}
    /\ \E i \in 1..Len(subs) : ~subs[i].mounted /\ subs[i].pc = "done"

\* C17: in every reachable state session.gcsUri is defined if and only if
\* session.hash is non-null.
C17_GcsUriIffHash == IsSome(currentSession.gcsUri) <=> IsSome(currentSession.hash)

\* the chat whose hash cannot be recovered from its previewUrl was opened
\* (neither hash nor gcsUri) and a submission then uploaded a file (both)
C17_Witness ==
    /\ currentSession.id = "chat2"
    /\ IsSome(currentSession.hash)
    /\ IsSome(currentSession.gcsUri)
    /\ TheVal(currentSession.gcsUri) = GcsUri(TheVal(currentSession.hash))

\* the positions of the fetched list B whose bookmark is less than 0.1 s from
\* event e and has e's summary
MatchesIn(B, e) ==
    {n \in 1..Len(B) : /\ B[n].fromTimestamp.t = "num" /\ e.fromTimestamp.t = "num"
                       /\ B[n].fromTimestamp.n - e.fromTimestamp.n < 10
                       /\ e.fromTimestamp.n - B[n].fromTimestamp.n < 10
                       /\ B[n].summary = e.summary}

Least(S) == CHOOSE n \in S : \A m \in S : n <= m

\* C18: when restoreSavedState completes for the event list E and the fetched
\* bookmark list B, savedEventIds[i] is, for every index i of E, the docId of
\* the first bookmark of B (in fetched order) within 0.1 s of E[i] and with
\* E[i]'s summary, and index i is absent when B has no such bookmark.
C18_RestoreCachesFirstMatch ==
    [][ \A r \in 1..Len(restores) :
          (RestoreDone(r) /\ restores[r].mounted) =>
             LET E == restores[r].events
                 B == restores[r].savedDocs
             IN  /\ DOMAIN savedEventIds' \subseteq 1..Len(E)
                 /\ \A i \in 1..Len(E) :
                       IF MatchesIn(B, E[i]) = {}
                       THEN i \notin DOMAIN savedEventIds'
                       ELSE /\ i \in DOMAIN savedEventIds'
                            /\ savedEventIds'[i] = B[Least(MatchesIn(B, E[i]))].docId ]_vars

\* chat1 was opened and its bookmarks restored: the car is saved under the id
\* of the bookmark 0.05 s away (listed before the exact one and after the one
\* 0.1 s away), the van is not saved
C18_Witness ==
    /\ currentSession.id = "chat1"
    /\ Len(Events) = 2
    /\ \E r \in 1..Len(restores) : restores[r] = ReturnedRestore
    /\ toggles = <<>>
    /\ saved = StoredBookmarks
    /\ DOMAIN savedEventIds = {1}
    /\ savedEventIds[1] = 0 - 1

HoldsDoc(store, docId) == \E n \in 1..Len(store) : store[n].docId = docId
Without(store, docId) == SelectSeq(store, LAMBDA b : b.docId /= docId)

\* no handleToggleSave call other than call t is waiting for the store
OnlyToggle(t) == \A u \in 1..Len(toggles) : u /= t => toggles[u] = ReturnedToggle

\* a handleToggleSave call on index, made while docId was cached for it, runs
\* to its end in this step, with no other call in flight
DeleteToggleEnds(index, docId) ==
    \/ \E t \in 1..Len(toggles) :
          /\ ToggleDeleteDone(t)
          /\ toggles[t].mounted /\ OnlyToggle(t)
          /\ toggles[t].index = index /\ toggles[t].docId = Some(docId)
    \/ /\ handleToggleSave(index)
       /\ OnlyToggle(0)
       /\ index \in DOMAIN savedEventIds /\ savedEventIds[index] = docId
       /\ toggles'[Len(toggles')] = ReturnedToggle

C21_FailedFetchKeepsCache ==
    [][ \A r \in 1..Len(restores) :
           (RestoreDone(r) /\ restores[r].fetchFailed) => UNCHANGED savedEventIds ]_vars

\* the result of parseTimestampToSeconds, once it has been evaluated
Parsed == calc.fn = "parseTimestampToSeconds" /\ IsSome(calc.result)

AllDigits(x) == x.t = "str" /\ \A n \in 1..Len(x.parts) : x.parts[n].k = "digits"

\* C22: parseTimestampToSeconds returns a number unchanged; for a string of
\* decimal components separated by ':' it returns h*3600+m*60+s for three
\* components, m*60+s for two and the seconds for one.
C22_ParsesClockStrings ==
    Parsed =>
       LET x == calc.arg
           y == TheVal(calc.result)
           p == x.parts
       IN  /\ x.t \in {"num", "nan"} => y = x
           /\ (AllDigits(x) /\ Len(p) = 3) =>
                 y = JSNum(100 * (p[1].v * 3600 + p[2].v * 60 + p[3].v))
           /\ (AllDigits(x) /\ Len(p) = 2) => y = JSNum(100 * (p[1].v * 60 + p[2].v))
           /\ (AllDigits(x) /\ Len(p) = 1) => y = JSNum(100 * p[1].v)

\* "1:2:3" was parsed to 3723 seconds
C22_Witness ==
    /\ Parsed
    /\ calc.arg = JSStr(<<Digits(1), Digits(2), Digits(3)>>)
    /\ calc.result = Some(JSNum(372300))

\* an input parseTimestampToSeconds cannot read as a time: undefined, the
\* empty string, or a string with a component that is not a number
Malformed(x) ==
    \/ x.t = "undef"
    \/ x = JSStr(<<EmptyPart>>)
    \/ x.t = "str" /\ \E n \in 1..Len(x.parts) : x.parts[n].k = "text"

\* C23: parseTimestampToSeconds returns 0 for every malformed input (empty,
\* undefined, or a string with a non-numeric component), never NaN.
C23_MalformedGivesZero == (Parsed /\ Malformed(calc.arg)) => calc.result = Some(JSNum(0))

Present(x) == x.t /= "undef"

\* the first field of the list that the finding has, undefined when it has none
RECURSIVE FirstPresent(_)
FirstPresent(fields) ==
    IF fields = <<>> THEN JSUndef
    ELSE IF Present(Head(fields)) THEN Head(fields)
    ELSE FirstPresent(Tail(fields))

\* C24: a raw finding t is normalized to fromTimestamp = normalize(first
\* present of t.start, t.timestamp, t.from), toTimestamp = normalize(first
\* present of t.end, t.to), summary = first present of t.description,
\* t.summary, else "Event Detected", and confidence = t.confidence whenever it
\* is given (0 included), otherwise a fixed fallback between 0.9 and 1.
C24_NormalizesFirstPresent ==
    (calc.fn \in {"FormatEvent", "FollowUpEvent"} /\ IsSome(calc.result)) =>
       LET t == calc.arg
           e == TheVal(calc.result)
       IN  /\ e.fromTimestamp =
                 parseTimestampToSeconds(FirstPresent(<<t.start, t.timestamp, t.from>>))
           /\ e.toTimestamp = parseTimestampToSeconds(FirstPresent(<<t.end, t.to>>))
           /\ e.summary = (IF t.description /= "" THEN t.description
                           ELSE IF t.summary /= "" THEN t.summary
                           ELSE "Event Detected")
           /\ IF Present(t.confidence)
              THEN e.confidence = t.confidence
              ELSE e.confidence.t = "num" /\ e.confidence.n \in 90..100

\* 0 <= fromTimestamp <= toTimestamp and 0 <= confidence <= 1
InRange(e) ==
    /\ e.fromTimestamp.t = "num" /\ e.toTimestamp.t = "num"
    /\ 0 <= e.fromTimestamp.n /\ e.fromTimestamp.n <= e.toTimestamp.n
    /\ e.confidence.t = "num" /\ 0 <= e.confidence.n /\ e.confidence.n <= 100

\* C25: every event in session.events and in every turn's analysisData.events
\* has 0 <= fromTimestamp <= toTimestamp and 0 <= confidence <= 1, whatever
\* the inference service returned.
C25_StoredEventsInRange ==
    /\ \A n \in 1..Len(Events) : InRange(Events[n])
    /\ \A events \in Batches : \A n \in 1..Len(events) : InRange(events[n])

HashCalls == calc.result.calls

\* C26: generateHash is a function of the file's bytes only: a call resolves
\* with the digest of its file's bytes, so two calls on files with the same
\* bytes resolve with the same digest, whatever the files' names, the chunks
\* the stream delivered, and the other call's progress.
C26_DigestOfBytesOnly ==
    calc.fn = "generateHash" =>
       /\ \A c \in 1..2 :
             HashCalls[c].pc = "resolved" =>
                HashCalls[c].value = Some(DigestFrom(0, calc.arg[c].bytes))
       /\ (/\ HashCalls[1].pc = "resolved" /\ HashCalls[2].pc = "resolved"
           /\ calc.arg[1].bytes = calc.arg[2].bytes)
             => HashCalls[1].value = HashCalls[2].value

\* two files of different names and the same bytes were hashed by the two
\* calls, and both resolved with the same digest
C26_Witness ==
    /\ calc.fn = "generateHash"
    /\ calc.arg[1].name /= calc.arg[2].name
    /\ calc.arg[1].bytes = calc.arg[2].bytes
    /\ HashCalls[1].pc = "resolved" /\ HashCalls[2].pc = "resolved"
    /\ HashCalls[1].value = HashCalls[2].value
    /\ HashCalls[1].value = Some(generateHash(calc.arg[2]))

\* C27: when a chunk read fails during generateHash, the call rejects, the
\* hook's hash stays as it was (null), no digest is returned or stored, and
\* the run is not reported as complete.
C27_FailedReadReportsNothing ==
    [][ \A c \in 1..2 :
           HashReadError(c) =>
              /\ calc'.result.calls[c].pc = "rejected"
              /\ calc'.result.calls[c].value = None
              /\ calc'.result.hash = calc.result.hash
              /\ calc'.result.progress < 100 ]_vars

\* the fingerprint of the object a chat's evidence was uploaded as: the object
\* getDownloadURL gave the chat's previewUrl for
UploadedHash(chat) ==
    IF IsSome(chat.previewUrl) /\ TheVal(chat.previewUrl).key.dir = "evidence"
    THEN Some(TheVal(chat.previewUrl).key.hash)
    ELSE None

\* C28: the storage key is a function of the fingerprint alone, so files of
\* the same bytes and different names are written to the same key; and for a
\* chat created from an upload with hash h, handleSelectChat reconstructs
\* hash = h and a gcsUri naming the stored object evidence/h.mp4, whether h is
\* the stored videoHash or is extracted from previewUrl.
C28_KeySurvivesPersistence ==
    /\ [](/\ \A f, g \in CopyFiles :
                f.bytes = g.bytes => StorageKey(generateHash(f)) = StorageKey(generateHash(g))
          /\ \A c \in 1..Len(chats) :
                IsSome(chats[c].videoHash) =>
                   /\ UploadedHash(chats[c]) = chats[c].videoHash
                   /\ extractHashFromUrl(chats[c].previewUrl) = chats[c].videoHash)
    /\ [][ /\ \A i \in 1..Len(subs) :
                UploadDone(i) =>
                   LET key == StorageKey(DigestFrom(0, TheVal(subs[i].file).bytes))
                   IN  /\ objects' = objects \cup {key}
                       /\ TheVal(subs'[i].currentGcsUri).key = key
                       /\ TheVal(subs'[i].currentDownloadUrl).key = key
           /\ \A c \in 1..Len(chats) :
                handleSelectChat(c) =>
                   /\ currentSession'.hash = UploadedHash(chats[c])
                   /\ IsSome(UploadedHash(chats[c])) =>
                         currentSession'.gcsUri =
                            Some(GcsUri(TheVal(UploadedHash(chats[c]))))
                   /\ IsSome(currentSession'.gcsUri) =>
                         /\ TheVal(currentSession'.gcsUri).key \in objects
                         /\ TheVal(currentSession'.gcsUri).key =
                               StorageKey(TheVal(currentSession'.hash)) ]_vars

\* the copy was uploaded, its chat was created with the copy's name and the
\* fingerprint stored, and the chat was opened again: its session has the
\* key of the one object that the stored chat's evidence, of another name,
\* also has
C28_Witness ==
    /\ epoch = 1
    /\ Len(chats) = 3
    /\ Len(loads) = 1
    /\ loads[1].chatId = chats[3].id
    /\ currentSession.id = chats[3].id
    /\ chats[3].videoName = "copy.mp4"
    /\ chats[1].videoName = "a.mp4"
    /\ IsSome(chats[3].videoHash)
    /\ currentSession.hash = chats[3].videoHash
    /\ currentSession.hash = extractHashFromUrl(chats[1].previewUrl)
    /\ currentSession.gcsUri = Some(GcsUri(generateHash(StoredFile)))
    /\ objects = {StorageKey(generateHash(StoredFile))}

\* the saved events are in ascending fromTimestamp order
Ascending(events) ==
    \A i, j \in 1..Len(events) :
       i < j => /\ IsNum(events[i].fromTimestamp) /\ IsNum(events[j].fromTimestamp)
                /\ events[i].fromTimestamp.n <= events[j].fromTimestamp.n

\* the documents of a list, whatever their order
DocsOf(events) == { events[k] : k \in 1..Len(events) }

\* C29: the report's findings are in ascending fromTimestamp order, with one
\* narrative sentence and one table row per bookmark in that same order, and
\* each row's label is "High Clarity" iff confidence > 0.9, "Moderate
\* Visibility" iff 0.7 < confidence <= 0.9, and "Low / Obstructed" otherwise.
C29_ReportOrderedAndLabelled ==
    /\ [](calc.fn = "report" =>
            \A r \in 1..Len(Report.reports) :
               LET memo == Report.reports[r]
                   B == memo.savedEvents
               IN  /\ Ascending(B)
                   /\ Len(memo.narrative.sentences) = Len(B)
                   /\ Len(memo.rows) = Len(B)
                   /\ \A k \in 1..Len(B) :
                         LET c == B[k].confidence
                             label == memo.rows[k][3]
                         IN  /\ memo.narrative.sentences[k].summary = B[k].summary
                             /\ memo.rows[k][2] = B[k].summary
                             /\ memo.rows[k][1] = memo.narrative.sentences[k].timeStr
                             /\ label = "High Clarity" <=> (IsNum(c) /\ c.n > 90)
                             /\ label = "Moderate Visibility"
                                   <=> (IsNum(c) /\ c.n > 70 /\ c.n <= 90)
                             /\ label = "Low / Obstructed"
                                   <=> ~(IsNum(c) /\ c.n > 70))
    /\ [][ \A sorted \in PermutationsOf(Report.store) :
              loadSaved(TRUE, sorted) =>
                 /\ DocsOf(Report'.savedEvents) = DocsOf(Report.store)
                 /\ Len(Report'.savedEvents) = Len(Report.store)
                 /\ (\A k \in 1..Len(Report.store) :
                        IsNum(Report.store[k].fromTimestamp))
                       => Ascending(Report'.savedEvents) ]_vars

\* a memo of three bookmarks that the collection holds in another order, with
\* a row of each label
C29_Witness ==
    /\ calc.fn = "report"
    /\ Len(Report.reports) >= 1
    /\ LET memo == Report.reports[1]
       IN  /\ Len(memo.rows) = 3
           /\ {memo.rows[k][3] : k \in 1..3}
                 = {"High Clarity", "Moderate Visibility", "Low / Obstructed"}
           /\ DocsOf(memo.savedEvents) = DocsOf(Report.store)
           /\ memo.savedEvents /= Report.store

\* C30: two generations from the same set of bookmarks give the same narrative
\* and the same table rows, also when the collection returns the bookmarks in
\* another order and some of them share a fromTimestamp.
C30_ReportDeterministic ==
    calc.fn = "report" =>
       \A r1, r2 \in 1..Len(Report.reports) :
          DocsOf(Report.reports[r1].savedEvents) = DocsOf(Report.reports[r2].savedEvents)
             => /\ Report.reports[r1].narrative = Report.reports[r2].narrative
                /\ Report.reports[r1].rows = Report.reports[r2].rows

\* the handleFollowUpSubmit calls whose inference call has not returned
OutstandingFollowUps == { j \in 1..Len(followups) : followups[j].pc = "inferring" }

\* the follow-up starts on a ready session, hashes and uploads nothing, and
\* asks for the object the session's evidence was stored as
FollowUpUsesStoredObject ==
    \A p \in Prompts :
       handleFollowUpSubmit(p) =>
          /\ currentSession.status = "ready" /\ currentSession'.status = "ready"
          /\ isAnalyzing'
          /\ subs' = subs /\ objects' = objects /\ isHashing' = isHashing
          /\ IsSome(followups'[Len(followups')].hash)
          /\ StorageKey(TheVal(followups'[Len(followups')].hash)) \in objects

\* C31: a follow-up submitted from the analysis view marks the view as
\* analyzing until it returns, never hashes or uploads, and calls inference
\* against the session's stored object; while one follow-up is in flight a
\* further one is ignored, so at most one follow-up inference call is
\* outstanding.
C31_OneFollowUpOutstanding ==
    /\ [](Cardinality(OutstandingFollowUps) <= 1)
    /\ [][FollowUpUsesStoredObject]_vars

\* no restoreSavedState and no handleToggleSave call is in flight, and the
\* restore effect of the current render has run
BookmarksQuiet ==
    /\ \A r \in 1..Len(restores) : restores[r].pc = "done"
    /\ \A t \in 1..Len(toggles) : toggles[t].pc = "done"
    /\ ChatMounted \/ restoreDeps = Some(EffectDeps)

\* the cached id of display index idx is the id of a bookmark of the chat
CachedIdExists(idx) ==
    \E n \in 1..Len(saved) :
       saved[n].chatId = currentSession.id /\ saved[n].docId = savedEventIds[idx]

\* C32: whenever no toggle or fetch is in flight, every id cached in
\* savedEventIds is the id of a bookmark that exists in the store, also for
\* event lists with two events of the same fromTimestamp and summary.
C32_NoDanglingIds ==
    BookmarksQuiet => \A idx \in DOMAIN savedEventIds : CachedIdExists(idx)

\* call u was made on the index of call t while t's create was pending, and
\* u's own create has returned: its bookmark exists and its id is cached
OverlappedBy(t, u) ==
    /\ u > t
    /\ toggles[t].pc = "saving" /\ toggles[t].mounted
    /\ toggles[u] = ReturnedToggle
    /\ toggles[t].index \in DOMAIN savedEventIds
    /\ savedEventIds[toggles[t].index] = u
    /\ HoldsDoc(saved, u)

\* C33: two handleToggleSave calls on the same unsaved index that overlap
\* leave at most one bookmark for the event in the store, the cached id is
\* that bookmark's, and no bookmark they made is unreachable from
\* savedEventIds once both have completed.
C33_OverlappingSavesMakeOne ==
    [][ \A t, u \in 1..Len(toggles), pos \in {0, Len(saved)} :
           (OverlappedBy(t, u) /\ ToggleSaveDone(t, pos)) =>
              /\ Cardinality({d \in {t, u} : HoldsDoc(saved', d)}) <= 1
              /\ \A d \in {t, u} :
                    HoldsDoc(saved', d) => savedEventIds'[toggles[t].index] = d ]_vars

\* savedEventIds[i] is defined exactly when the store holds a bookmark that
\* matches event i of the session's events
CacheAgreesWithStore ==
    \A i \in 1..Len(Events) :
       i \in DOMAIN savedEventIds
          <=> MatchesIn(SavedOf(currentSession.id), Events[i]) /= {}

\* C34: a reconciliation fetch started before a toggle or before a later
\* reconciliation never overwrites their result: when a restoreSavedState
\* call whose fetch succeeded is the last call in flight to finish,
\* savedEventIds[i] is defined exactly when the store holds a bookmark
\* matching event i of the current session.events.
C34_StaleFetchNeverOverwrites ==
    [][ \A r \in 1..Len(restores) :
           (/\ RestoreDone(r)
            /\ restores[r].mounted /\ ~restores[r].fetchFailed
            /\ BookmarksQuiet')
              => CacheAgreesWithStore' ]_vars

\* C35: for one local session that starts with a sentinel id, at most one chat
\* document is ever created by onSaveSession and every exchange of the
\* session is saved under that one chat id, also when two submissions complete
\* before the first createSession call has returned.  (Before any
\* handleNewChat or handleSelectChat there has been one local session only.)
C35_OneChatPerSession ==
    epoch = 0 =>
       /\ Len(chats) <= 1
       /\ \A m \in 1..Len(messages) :
             Len(chats) >= 1 /\ messages[m].chatId = chats[1].id

\* the chat a turn loaded from the store belongs to (the ids of stored
\* documents are negative)
ChatOfTurn(turn) == messages[0 - turn.id].chatId

\* C36: the messages loaded by handleSelectChat(A) are written into the
\* session only if the current session id is still A when loadMessages
\* returns: after selecting A and then B, or starting a new session, before
\* A's messages arrive, the session never shows A's turns.
C36_StaleLoadIgnored ==
    /\ [](\A n \in 1..Len(History) :
             History[n].id < 0 => ChatOfTurn(History[n]) = currentSession.id)
    /\ [][ \A k \in 1..Len(loads), ok \in BOOLEAN :
              LoadDone(k, ok) =>
                 IF currentSession.id = loads[k].chatId
                 THEN /\ Len(History') = Len(loadMessages(loads[k].chatId))
                         \/ (~ok /\ History' = <<>>)
                      /\ currentSession' = [currentSession EXCEPT !.chatHistory = History']
                 ELSE currentSession' = currentSession ]_vars

\* chat1 was selected, then chat2; both loads have returned, and the session
\* of chat2 shows none of chat1's two turns
C36_Witness ==
    /\ epoch = 2
    /\ Len(loads) = 2
    /\ loads[1] = [chatId |-> "chat1", pc |-> "done"]
    /\ loads[2] = [chatId |-> "chat2", pc |-> "done"]
    /\ Len(loadMessages("chat1")) = 2
    /\ currentSession.id = "chat2"
    /\ History = <<>>


(***************************** C37 *****************************************)
\* the turns of s are turns of t, in the same order (turns compared by id)
RECURSIVE Embeds(_, _)
Embeds(s, t) ==
    IF s = <<>> THEN TRUE
    ELSE IF t = <<>> THEN FALSE
    ELSE IF Head(s).id = Head(t).id THEN Embeds(Tail(s), Tail(t))
    ELSE Embeds(s, Tail(t))

\* a step of a handleSubmit call: the call itself or one of its continuations
SubmitStep == subs' /= subs /\ epoch' = epoch /\ loads' = loads

\* C37: session.chatHistory is append-only within a session: every turn the
\* state holds when handleSubmit is called, or when one of its continuations
\* runs, is still in chatHistory, in the same relative order, after the step's
\* updates are applied, also when handleSubmit computed newHistory from a
\* session value older than the latest state.
C37_HistoryAppendOnly ==
    /\ [][SubmitStep => Embeds(History, History')]_vars
    /\ [][\A k \in 1..Len(loads), ok \in BOOLEAN, p \in Prompts, dt \in ClockSteps :
             LoadThenSubmit(k, ok, p, dt)
                => Embeds(IF currentSession.id = loads[k].chatId
                          THEN LoadedTurns(k, ok) ELSE History, History')]_vars


(***************************** C38 *****************************************)
\* the message documents of a chat, in createdAt order
MessagesOf(c) == SelectSeq(messages, LAMBDA m : m.chatId = c)

\* what handleSelectChat makes of the chat's messages
Reloaded(c) ==
    LET rawMessages == loadMessages(c)
    IN  [n \in 1..Len(rawMessages) |-> FormatMessage(rawMessages[n])]

\* a saveMessage call on chat c is between its first addDoc and its return
SavingTo(c) ==
    \/ \E i \in 1..Len(subs) :
          subs[i].pc \in {"saveUser", "saveAi"} /\ subs[i].chatId = c
    \/ \E j \in 1..Len(followups) :
          followups[j].pc \in {"saveUser", "saveAi"} /\ followups[j].sessionId = c

\* every saveMessage call that wrote to chat c has stored its whole exchange
ExchangesStored(c) ==
    /\ ~SavingTo(c)
    /\ \A m \in 1..Len(MessagesOf(c)) :
          Cardinality({n \in 1..Len(MessagesOf(c)) :
                          MessagesOf(c)[n].src = MessagesOf(c)[m].src}) = 2

\* the reloaded history is the stored exchanges, each a user turn with the
\* prompt followed by an ai turn with the events
IsRoundTrip(c) ==
    LET docs == MessagesOf(c)
        turns == Reloaded(c)
    IN  /\ Len(turns) = Len(docs)
        /\ Len(docs) % 2 = 0
        /\ \A k \in 1..(Len(docs) \div 2) :
              /\ docs[2 * k - 1].src = docs[2 * k].src
              /\ docs[2 * k - 1].role = "user"
              /\ docs[2 * k].role = "assistant"
              /\ turns[2 * k - 1].role = "user"
              /\ turns[2 * k - 1].text = docs[2 * k - 1].text
              /\ turns[2 * k].role = "ai"
              /\ IsSome(turns[2 * k].analysisData)
              /\ TheVal(turns[2 * k].analysisData).events = docs[2 * k].events

\* saveMessage stores the prompt and the events it was called with
StoresItsArguments ==
    /\ \A i \in 1..Len(subs) :
          SaveStep(i) =>
             LET doc == messages'[Len(messages')]
             IN  /\ doc.chatId = subs[i].chatId
                 /\ IF subs[i].pc = "saveUser"
                    THEN doc.role = "user" /\ doc.text = subs[i].prompt
                    ELSE doc.role = "assistant" /\ doc.events = subs[i].events
    /\ \A j \in 1..Len(followups), dt \in ClockSteps :
          (FollowUpSaveStep(j, dt) /\ followups[j].pc \in {"saveUser", "saveAi"}) =>
             LET doc == messages'[Len(messages')]
             IN  /\ doc.chatId = followups[j].sessionId
                 /\ IF followups[j].pc = "saveUser"
                    THEN doc.role = "user" /\ doc.text = followups[j].prompt
                    ELSE doc.role = "assistant" /\ doc.events = followups[j].events

\* C38: persisting and reloading a conversation is a round trip: once
\* saveMessage has stored exchanges (p1,E1)...(pn,En) for a chat,
\* handleSelectChat on that chat yields chatHistory = user(p1), ai(E1), ...,
\* user(pn), ai(En) in that order, each ai turn's analysisData.events equal to
\* Ek and each user turn's text equal to pk.
C38_SaveLoadRoundTrip ==
    /\ [](\A c \in 1..Len(chats) : ExchangesStored(chats[c].id) => IsRoundTrip(chats[c].id))
    /\ [][StoresItsArguments]_vars
    /\ [][\A k \in 1..Len(loads) :
             (LoadDone(k, TRUE) /\ currentSession.id = loads[k].chatId)
                => History' = Reloaded(loads[k].chatId)]_vars

====
